---- MODULE Spec2Model ----
(***************************************************************************)
(* Token Vesting Manager (contracts/token_vesting_manager/src/lib.rs).     *)
(*                                                                         *)
(* The contract is a single-writer state machine over the host's           *)
(* persistent key/value storage.  Every entry point is modelled as an      *)
(* operator that maps the storage, the token ledger and the call's         *)
(* arguments to a result [err, persistent, balance]: err = Ok when the     *)
(* call returns, and otherwise the panic message of the failing check (or  *)
(* a host trap).  The host commits the writes of a call that returns and   *)
(* discards those of a call that panics, so an action of the state machine *)
(* is a call whose result is Ok.                                           *)
(***************************************************************************)
EXTENDS Integers, Sequences, FiniteSets, TLC

(***************************************************************************)
(* Bounds of the model.                                                    *)
(***************************************************************************)
\* Largest ledger timestamp the clock reaches.
MaxTime == 4
\* Largest vesting id a caller passes to claim / revoke_vesting.
MaxVestingId == 1
\* Largest amount an admin asks withdraw_admin for.
MaxWithdraw == 2
\* Managed tokens every funded address holds before the first call.
InitialFunds == 4
\* Units of the other token that were sent to the contract by accident.
StrayFunds == 1
\* Longest batch handed to create_vesting_batch.
MaxBatch == 2
\* Largest release interval and linear amount of the enumerated schedules.
MaxInterval == 2
MaxLinear == 3
\* The width of the amount type U256, scaled down with the other bounds.
AmountBits == 3
\* Largest amount of the managed token sent to the contract in one transfer.
MaxDeposit == 1
\* The length of the factory's salt in bytes, scaled down from 32.
SaltLen == 2
\* Most deployments one factory makes: enough for a carry out of the last byte.
MaxDeployments == 257

(***************************************************************************)
(* Principals and tokens.                                                  *)
(***************************************************************************)
Addr == {"A", "B", "C"}
\* env.current_contract_address()
Self == "MANAGER"
Holders == Addr \cup {Self}
ManagedToken == "TOKEN"
OtherToken == "OTHER"
Tokens == {ManagedToken, OtherToken}

(***************************************************************************)
(* Storage keys.                                                           *)
(***************************************************************************)
ADMINS == "ADMINS"
ADMIN_COUNT == "ADCOUNT"
TOKEN_ADDRESS == "TOKENADDR"
TOKENS_RESERVED_FOR_VESTING == "TRESERVED"
RECIPIENT_VESTINGS == "RVESTINGS"
VESTING_BY_ID == "VBYID"
NONCE == "NONCE"
RECIPIENTS == "RECIPS"

\* Event topics.
ADMIN_ACCESS_SET == "ADMINSET"
VESTING_CREATED == "VCREATED"
CLAIMED == "CLAIMED"
VESTING_REVOKED == "VREVOKED"
ADMIN_WITHDRAWN == "ADMINWITH"

VARIABLES
    persistent,   \* env.storage().persistent(): stored key -> value
    balance,      \* the token contracts' ledgers: token -> holder -> amount
    now,          \* env.ledger().timestamp()
    forfeited,    \* history: vesting id -> amount released from reserved by revokes
    revoked_at,   \* history: vesting id -> ledger times of its successful revokes
    claimed_at,   \* history: vesting id -> ledger time of its last successful claim
    events,       \* the events the last committed invocation published
    logged,       \* whether the behaviour keeps those events: they are no
                  \* storage of the contract, and only EventSpec records them
    instance,     \* the factory's env.storage().instance(): stored key -> value
    deployed      \* history: the salts of the factory's deployments, in order

vars == <<persistent, balance, now, forfeited, revoked_at, claimed_at, events,
          logged, instance, deployed>>

(***************************************************************************)
(* Host values.  A Map is a function on the keys it holds; a Vec is a      *)
(* sequence.  The value stored under RECIPIENT_VESTINGS carries its host   *)
(* object type, because the contract reads that key under two types.       *)
(***************************************************************************)
EmptyMap == [k \in {} |-> 0]
MapSet(m, k, v) == [x \in (DOMAIN m) \cup {k} |-> IF x = k THEN v ELSE m[x]]
MapHas(m, k) == k \in DOMAIN m
VecObject(items) == [tag |-> "Vec", items |-> items]

Has(p, key) == key \in DOMAIN p
\* get(key).unwrap_or(default)
GetOr(p, key, default) == IF Has(p, key) THEN p[key] ELSE default
Set(p, key, value) == MapSet(p, key, value)

(***************************************************************************)
(* Results of a call.                                                      *)
(***************************************************************************)
Ok == "ok"
Trap == "host trap"
\* ret: the value the call returns, or the amount its event reports.
Result(err, p, b, ret) ==
    [err |-> err, persistent |-> p, balance |-> b, ret |-> ret, events |-> <<>>]

\* env.events().publish((topic,), data)
Event(topic, data) == [topic |-> topic, data |-> data]
Published(r, event) == [r EXCEPT !.events = Append(@, event)]

(***************************************************************************)
(* The token collaborator (external; spec section 6).  transfer moves      *)
(* amount from the invoking contract to `to`, transfer_from moves amount   *)
(* from `from` to `to`; both fail on an insufficient balance.              *)
(***************************************************************************)
TokenBalance(b, token, holder) == b[token][holder]
TokenCanMove(b, token, from, amount) == b[token][from] >= amount
TokenMoveNowhere(b, token, from, to, amount) == b
TokenMove(b, token, from, to, amount) ==
    [b EXCEPT ![token][from] = @ - amount, ![token][to] = @ + amount]

(***************************************************************************)
(* Admin set.                                                              *)
(***************************************************************************)
\* The "Access control check" of every privileged entry point:
\* admins.get(caller).is_some()
PassesAccessControl(p, caller) == MapHas(GetOr(p, ADMINS, EmptyMap), caller)

\* admins.get(address).unwrap_or(false)
is_admin(p, address) ==
    LET admins == GetOr(p, ADMINS, EmptyMap)
    IN  IF MapHas(admins, address) THEN admins[address] ELSE FALSE

get_admins_count(p) == GetOr(p, ADMIN_COUNT, 0)

\* env.storage().persistent().has(&ADMINS)
HasNonce(p) == Has(p, NONCE)
HasAdmins(p) == Has(p, ADMINS)

init(p, b, factory_caller, token_address) ==
    IF HasAdmins(p) THEN Result("Already initialized", p, b, 0)
    ELSE LET p1 == Set(p, ADMINS, MapSet(EmptyMap, factory_caller, TRUE))
             p2 == Set(p1, ADMIN_COUNT, 1)
             p3 == Set(p2, TOKEN_ADDRESS, token_address)
         IN  Result(Ok, p3, b, 0)

\* admins.get(admin).unwrap_or(!is_enabled) != is_enabled
FlagDiffers(admins, admin, is_enabled) ==
    (IF MapHas(admins, admin) THEN admins[admin] ELSE ~is_enabled) # is_enabled

\* assert!(admin_count > 1, "There must always be at least 1 admin")
MoreThanOneAdminOffByOne(admin_count) == admin_count > 0
MoreThanOneAdmin(admin_count) == admin_count > 1

\* new_admin_count: admin_count + 1 when enabling, admin_count - 1 otherwise.
NewAdminCountAlwaysUp(admin_count, is_enabled) == admin_count + 1
NewAdminCount(admin_count, is_enabled) ==
    IF is_enabled THEN admin_count + 1 ELSE admin_count - 1

set_admin(p, b, caller, admin, is_enabled) ==
    LET admins == GetOr(p, ADMINS, EmptyMap)
        admin_count == GetOr(p, ADMIN_COUNT, 0)
    IN  IF ~PassesAccessControl(p, caller) THEN Result("Not an admin", p, b, 0)
        ELSE IF ~FlagDiffers(admins, admin, is_enabled)
        THEN Result("Flag provided already set", p, b, 0)
        ELSE IF ~is_enabled /\ ~MoreThanOneAdmin(admin_count)
        THEN Result("There must always be at least 1 admin", p, b, 0)
        ELSE LET new_admin_count == NewAdminCount(admin_count, is_enabled)
                 p1 == Set(p, ADMIN_COUNT, new_admin_count)
                 p2 == Set(p1, ADMINS, MapSet(admins, admin, is_enabled))
             IN  Published(Result(Ok, p2, b, 0),
                           Event(ADMIN_ACCESS_SET, <<admin, is_enabled>>))

(***************************************************************************)
(* Schedule store.                                                         *)
(***************************************************************************)
Vesting(recipient, start_timestamp, end_timestamp, deactivation_timestamp, timelock, release_interval_secs, cliff_release_timestamp, initial_unlock, cliff_amount, linear_vest_amount, claimed_amount) ==
    [recipient |-> recipient,
     start_timestamp |-> start_timestamp,
     end_timestamp |-> end_timestamp,
     deactivation_timestamp |-> deactivation_timestamp,
     timelock |-> timelock,
     release_interval_secs |-> release_interval_secs,
     cliff_release_timestamp |-> cliff_release_timestamp,
     initial_unlock |-> initial_unlock,
     cliff_amount |-> cliff_amount,
     linear_vest_amount |-> linear_vest_amount,
     claimed_amount |-> claimed_amount]

\* Whether vesting_by_id.get(vesting_id) is Some.
HasVesting(p, vesting_id) == MapHas(GetOr(p, VESTING_BY_ID, EmptyMap), vesting_id)

\* vesting_by_id.get(vesting_id).unwrap(): panics when HasVesting is false.
get_vesting_info(p, vesting_id) == GetOr(p, VESTING_BY_ID, EmptyMap)[vesting_id]

get_tokens_reserved_for_vesting(p) == GetOr(p, TOKENS_RESERVED_FOR_VESTING, 0)

get_token_address(p) == GetOr(p, TOKEN_ADDRESS, "0")

get_all_recipients(p) == GetOr(p, RECIPIENTS, <<>>)

\* storage.get::<_, Map<Address, Vec<U256>>>(&RECIPIENT_VESTINGS): the host
\* converts the stored value to the requested type and the call panics
\* when the stored object is not a Map.
RecipientVestingsReadable(p) ==
    IF Has(p, RECIPIENT_VESTINGS) THEN p[RECIPIENT_VESTINGS].tag = "Map" ELSE TRUE

\* Defined when RecipientVestingsReadable(p).
is_recipient(p, recipient) ==
    LET recipient_vestings == IF Has(p, RECIPIENT_VESTINGS)
                              THEN p[RECIPIENT_VESTINGS].items ELSE EmptyMap
        recipient_ids == IF MapHas(recipient_vestings, recipient)
                         THEN recipient_vestings[recipient] ELSE <<>>
    IN  Len(recipient_ids) # 0

get_all_recipients_len(p) == Len(get_all_recipients(p))

\* Defined when RecipientVestingsReadable(p).
get_all_recipient_vestings(p, recipient) ==
    LET recipient_vestings == IF Has(p, RECIPIENT_VESTINGS)
                              THEN p[RECIPIENT_VESTINGS].items ELSE EmptyMap
    IN  IF MapHas(recipient_vestings, recipient)
        THEN recipient_vestings[recipient] ELSE <<>>

\* Defined when RecipientVestingsReadable(p).
get_all_recipient_vestings_len(p, recipient) ==
    Len(get_all_recipient_vestings(p, recipient))

(***************************************************************************)
(* Vesting calculator.                                                     *)
(***************************************************************************)
\* if adjusted_reference_timestamp >= vesting.end_timestamp { .. = end_timestamp }
NotClampedToEnd(timestamp, end_timestamp) == timestamp
ClampedToEnd(timestamp, end_timestamp) ==
    IF timestamp >= end_timestamp THEN end_timestamp ELSE timestamp

\* adjusted_reference_timestamp >= vesting.cliff_release_timestamp
CliffReleasedOnlyAt(timestamp, cliff_release_timestamp) ==
    timestamp = cliff_release_timestamp
CliffReleased(timestamp, cliff_release_timestamp) ==
    timestamp >= cliff_release_timestamp

\* reference_timestamp >= vesting.start_timestamp
InitialUnlockedAfterStart(reference_timestamp, start_timestamp) ==
    reference_timestamp > start_timestamp
InitialUnlocked(reference_timestamp, start_timestamp) ==
    reference_timestamp >= start_timestamp

\* adjusted_reference_timestamp: the reference time capped at the
\* deactivation, when there is one, and then at the end.
AdjustedReferenceTimestamp(vesting, reference_timestamp) ==
    LET deactivated ==
            IF /\ vesting.deactivation_timestamp # 0
               /\ reference_timestamp > vesting.deactivation_timestamp
            THEN vesting.deactivation_timestamp
            ELSE reference_timestamp
    IN  ClampedToEnd(deactivated, vesting.end_timestamp)

\* The start of the linear part: the cliff when there is one.
LinearStartTimestamp(vesting) ==
    IF vesting.cliff_release_timestamp # 0
    THEN vesting.cliff_release_timestamp ELSE vesting.start_timestamp

\* The product with the elapsed time as it is, not truncated to intervals.
LinearProductUntruncated(vesting, adjusted_reference_timestamp) == vesting.linear_vest_amount * (adjusted_reference_timestamp - LinearStartTimestamp(vesting))

\* vesting.linear_vest_amount.mul(truncated_current_vesting_duration_secs),
\* when adjusted_reference_timestamp > start_timestamp.
LinearProduct(vesting, adjusted_reference_timestamp) ==
    LET current_vesting_duration_secs ==
            adjusted_reference_timestamp - LinearStartTimestamp(vesting)
        truncated_current_vesting_duration_secs ==
            (current_vesting_duration_secs \div vesting.release_interval_secs)
                * vesting.release_interval_secs
    IN  vesting.linear_vest_amount * truncated_current_vesting_duration_secs

calculate_vested_amount(vesting, reference_timestamp) ==
    LET adjusted_reference_timestamp ==
            AdjustedReferenceTimestamp(vesting, reference_timestamp)
        cliff ==
            IF CliffReleased(adjusted_reference_timestamp,
                             vesting.cliff_release_timestamp)
            THEN vesting.cliff_amount ELSE 0
        initial ==
            IF /\ vesting.initial_unlock > 0
               /\ InitialUnlocked(reference_timestamp, vesting.start_timestamp)
            THEN vesting.initial_unlock ELSE 0
        start_timestamp == LinearStartTimestamp(vesting)
        linear ==
            IF adjusted_reference_timestamp > start_timestamp
            THEN LET final_vesting_duration_secs ==
                         vesting.end_timestamp - start_timestamp
                 IN  LinearProduct(vesting, adjusted_reference_timestamp)
                         \div final_vesting_duration_secs
            ELSE 0
    IN  cliff + initial + linear

(***************************************************************************)
(* Orchestrator.                                                           *)
(***************************************************************************)
\* start_timestamp != 0 && start_timestamp < end_timestamp
ValidStartAllowingZero(start_timestamp, end_timestamp) ==
    start_timestamp < end_timestamp
ValidStart(start_timestamp, end_timestamp) ==
    start_timestamp # 0 /\ start_timestamp < end_timestamp

\* The asserts of create_vesting, in order; Ok when all pass.
CreateVestingCheck(start_timestamp, end_timestamp, cliff_release_timestamp, cliff_amount, release_interval_secs, linear_vest_amount) ==
    IF linear_vest_amount + cliff_amount = 0 THEN "Invalid vested amount"
    ELSE IF ~ValidStart(start_timestamp, end_timestamp)
    THEN "Invalid start timestamp"
    ELSE IF release_interval_secs = 0 THEN "Invalid release interval"
    ELSE IF cliff_release_timestamp = 0
    THEN IF cliff_amount # 0 THEN "invalid cliff amount"
         ELSE IF (end_timestamp - start_timestamp) % release_interval_secs # 0
         THEN "Invalid interval length"
         ELSE Ok
    ELSE IF cliff_amount = 0 THEN "Invalid cliff amount"
    ELSE IF ~(/\ start_timestamp <= cliff_release_timestamp
              /\ cliff_release_timestamp < end_timestamp)
    THEN "Invalid cliff release"
    ELSE IF (end_timestamp - cliff_release_timestamp) % release_interval_secs # 0
    THEN "Invalid interval length"
    ELSE Ok

\* initial_unlock.add(&cliff_amount).add(&linear_vest_amount)
TotalExpectedAmountWithoutUnlock(initial_unlock, cliff_amount, linear_vest_amount) ==
    cliff_amount + linear_vest_amount
TotalExpectedAmount(initial_unlock, cliff_amount, linear_vest_amount) ==
    initial_unlock + cliff_amount + linear_vest_amount

\* vesting_id.add(&U256::from_u32(&env, 1))
SameVestingId(vesting_id) == vesting_id
NewVestingId(vesting_id) == vesting_id + 1

\* recipients.insert(recipients.len(), recipient.clone())
WithoutRecipient(recipients, recipient) == recipients
WithRecipient(recipients, recipient) == Append(recipients, recipient)

create_vesting(p, b, caller, recipient, start_timestamp, end_timestamp, timelock, initial_unlock, cliff_release_timestamp, cliff_amount, release_interval_secs, linear_vest_amount) ==
    LET check == CreateVestingCheck(start_timestamp, end_timestamp,
                                    cliff_release_timestamp, cliff_amount,
                                    release_interval_secs, linear_vest_amount)
        total_expected_amount ==
            TotalExpectedAmount(initial_unlock, cliff_amount, linear_vest_amount)
        reserved_tokens == get_tokens_reserved_for_vesting(p) + total_expected_amount
        p1 == Set(p, TOKENS_RESERVED_FOR_VESTING, reserved_tokens)
        vesting == Vesting(recipient, start_timestamp, end_timestamp, 0, timelock,
                           release_interval_secs, cliff_release_timestamp,
                           initial_unlock, cliff_amount, linear_vest_amount, 0)
        vesting_id == GetOr(p1, NONCE, 0)
        p2 == Set(p1, NONCE, NewVestingId(vesting_id))
        p3 == IF ~is_recipient(p2, recipient)
              THEN Set(p2, RECIPIENTS, WithRecipient(get_all_recipients(p2), recipient))
              ELSE p2
        p4 == Set(p3, VESTING_BY_ID,
                  MapSet(GetOr(p3, VESTING_BY_ID, EmptyMap), vesting_id, vesting))
        \* storage.get::<_, Vec<U256>>(&RECIPIENT_VESTINGS)
        recipient_vestings == GetOr(p4, RECIPIENT_VESTINGS, VecObject(<<>>))
        p5 == Set(p4, RECIPIENT_VESTINGS,
                  VecObject(Append(recipient_vestings.items, vesting_id)))
        token_address == get_token_address(p5)
    IN  IF ~PassesAccessControl(p, caller) THEN Result("Not an admin", p, b, 0)
        ELSE IF check # Ok THEN Result(check, p, b, 0)
        ELSE IF ~RecipientVestingsReadable(p2) THEN Result(Trap, p2, b, 0)
        ELSE IF recipient_vestings.tag # "Vec" THEN Result(Trap, p4, b, 0)
        ELSE IF ~TokenCanMove(b, token_address, caller, total_expected_amount)
        THEN Result(Trap, p5, b, 0)
        ELSE Published(
                 Result(Ok, p5,
                        TokenMove(b, token_address, caller, Self, total_expected_amount),
                        vesting_id),
                 Event(VESTING_CREATED, <<vesting_id, recipient, vesting>>))

\* The owner check of claim: vesting.recipient != caller panics.
IsVestingOwnerOrAdmin(p, vesting, caller) ==
    vesting.recipient = caller \/ PassesAccessControl(p, caller)
IsVestingOwner(p, vesting, caller) == vesting.recipient = caller

\* vest_amount.sub(&vesting.claimed_amount)
ClaimableIgnoringClaimed(vest_amount, claimed_amount) == vest_amount
Claimable(vest_amount, claimed_amount) == vest_amount - claimed_amount

claim(p, b, timestamp, caller, vesting_id) ==
    IF ~HasVesting(p, vesting_id) THEN Result(Trap, p, b, 0)
    ELSE
    LET vesting == get_vesting_info(p, vesting_id)
        vest_amount == calculate_vested_amount(vesting, timestamp)
        claimable == Claimable(vest_amount, vesting.claimed_amount)
        claimed == [vesting EXCEPT !.claimed_amount = @ + claimable]
        p1 == Set(p, VESTING_BY_ID,
                  MapSet(GetOr(p, VESTING_BY_ID, EmptyMap), vesting_id, claimed))
        reserved_tokens == get_tokens_reserved_for_vesting(p1) - claimable
        p2 == Set(p1, TOKENS_RESERVED_FOR_VESTING, reserved_tokens)
        token_address == get_token_address(p2)
    IN  IF ~IsVestingOwner(p, vesting, caller)
        THEN Result("Not vesting owner", p, b, 0)
        ELSE IF ~(vesting.timelock <= timestamp) THEN Result("Timelock enabled", p, b, 0)
        ELSE IF vest_amount < vesting.claimed_amount THEN Result(Trap, p, b, 0)
        ELSE IF claimable = 0 THEN Result("Insufficient balance to claim", p, b, 0)
        ELSE IF get_tokens_reserved_for_vesting(p1) < claimable
        THEN Result(Trap, p1, b, 0)
        ELSE IF ~TokenCanMove(b, token_address, Self, claimable)
        THEN Result(Trap, p2, b, 0)
        ELSE Published(
                 Result(Ok, p2, TokenMove(b, token_address, Self, caller, claimable),
                        claimable),
                 Event(CLAIMED, <<vesting_id, caller, claimable>>))

\* final_vest_amount.sub(&vested_amount_now)
AmountRemainingNone(final_vest_amount, vested_amount_now) == 0
AmountRemaining(final_vest_amount, vested_amount_now) ==
    final_vest_amount - vested_amount_now

\* vesting.deactivation_timestamp = env.ledger().timestamp()
DeactivatedAndEnded(vesting, timestamp) ==
    [vesting EXCEPT !.deactivation_timestamp = timestamp,
                    !.end_timestamp = timestamp]
Deactivated(vesting, timestamp) ==
    [vesting EXCEPT !.deactivation_timestamp = timestamp]

\* assert!(final_vest_amount != vesting.claimed_amount, ...)
AllClaimedBelow(final_vest_amount, claimed_amount) == final_vest_amount < claimed_amount
AllClaimed(final_vest_amount, claimed_amount) == final_vest_amount = claimed_amount

revoke_vesting(p, b, timestamp, caller, vesting_id) ==
    IF ~PassesAccessControl(p, caller) THEN Result("Not an admin", p, b, 0)
    ELSE IF ~HasVesting(p, vesting_id) THEN Result(Trap, p, b, 0)
    ELSE
    LET vesting == get_vesting_info(p, vesting_id)
        final_vest_amount == calculate_vested_amount(vesting, vesting.end_timestamp)
        revoked == Deactivated(vesting, timestamp)
        p1 == Set(p, VESTING_BY_ID,
                  MapSet(GetOr(p, VESTING_BY_ID, EmptyMap), vesting_id, revoked))
        vested_amount_now == calculate_vested_amount(revoked, timestamp)
        amount_remaining == AmountRemaining(final_vest_amount, vested_amount_now)
        reserved_tokens == get_tokens_reserved_for_vesting(p1) - amount_remaining
        p2 == Set(p1, TOKENS_RESERVED_FOR_VESTING, reserved_tokens)
    IN  IF vesting.deactivation_timestamp # 0 THEN Result("Vesting not active", p, b, 0)
        ELSE IF AllClaimed(final_vest_amount, vesting.claimed_amount)
        THEN Result("All vested amount already claimed", p, b, 0)
        ELSE IF final_vest_amount < vested_amount_now THEN Result(Trap, p1, b, 0)
        ELSE IF get_tokens_reserved_for_vesting(p1) < amount_remaining
        THEN Result(Trap, p1, b, 0)
        ELSE Published(
                 Result(Ok, p2, b, amount_remaining),
                 Event(VESTING_REVOKED,
                       <<vesting_id, revoked.recipient, amount_remaining, revoked>>))

\* balance.sub(&reserved_tokens): panics when the balance is below reserved.
AmountToWithdrawDefined(p, b) ==
    TokenBalance(b, get_token_address(p), Self) >= get_tokens_reserved_for_vesting(p)

amount_to_withdraw_by_admin(p, b) ==
    TokenBalance(b, get_token_address(p), Self) - get_tokens_reserved_for_vesting(p)

\* assert!(amount_remaining >= amount_requested, "Insuffisance balance")
SufficientUnreservedOffByOne(amount_remaining, amount_requested) ==
    amount_remaining + 1 >= amount_requested
SufficientUnreserved(amount_remaining, amount_requested) ==
    amount_remaining >= amount_requested

withdraw_admin(p, b, caller, amount_requested) ==
    LET amount_remaining == amount_to_withdraw_by_admin(p, b)
        token_address == get_token_address(p)
    IN  IF ~PassesAccessControl(p, caller) THEN Result("Not an admin", p, b, 0)
        ELSE IF ~AmountToWithdrawDefined(p, b) THEN Result(Trap, p, b, 0)
        ELSE IF ~SufficientUnreserved(amount_remaining, amount_requested)
        THEN Result("Insuffisance balance", p, b, 0)
        ELSE IF ~TokenCanMove(b, token_address, Self, amount_requested)
        THEN Result(Trap, p, b, 0)
        ELSE Published(
                 Result(Ok, p,
                        TokenMove(b, token_address, Self, caller, amount_requested),
                        amount_requested),
                 Event(ADMIN_WITHDRAWN, <<caller, amount_requested>>))

\* assert!(other_token_address != Self::get_token_address(env.clone()), ...)
AnyToken(other_token_address, token_address) == TRUE
OtherThanManaged(other_token_address, token_address) ==
    other_token_address # token_address

withdraw_other_token(p, b, caller, other_token_address) ==
    LET held == TokenBalance(b, other_token_address, Self)
    IN  IF ~PassesAccessControl(p, caller) THEN Result("Not an admin", p, b, 0)
        ELSE IF ~OtherThanManaged(other_token_address, get_token_address(p))
        THEN Result("Invalid other token", p, b, 0)
        ELSE Result(Ok, p, TokenMove(b, other_token_address, Self, caller, held),
                    held)

\* Self::create_vesting for the entries at index i of the nine sequences.
CreateElement(p, b, caller, params, i) ==
    create_vesting(p, b, caller,
                   params.recipients[i],
                   params.start_timestamps[i],
                   params.end_timestamps[i],
                   params.timelocks[i],
                   params.initial_unlocks[i],
                   params.cliff_release_timestamps[i],
                   params.cliff_amounts[i],
                   params.release_interval_secs[i],
                   params.linear_vest_amounts[i])

RECURSIVE CreateVestingLoopSkipping(_, _, _, _, _, _, _)
CreateVestingLoopSkipping(p, b, caller, params, i, vesting_ids, published) ==
    IF i > Len(params.recipients)
    THEN [Result(Ok, p, b, vesting_ids) EXCEPT !.events = published]
    ELSE LET r == CreateElement(p, b, caller, params, i)
         IN  IF r.err # Ok
             THEN CreateVestingLoopSkipping(p, b, caller, params, i + 1,
                                            vesting_ids, published)
             ELSE CreateVestingLoopSkipping(r.persistent, r.balance, caller, params,
                                            i + 1, Append(vesting_ids, r.ret),
                                            published \o r.events)

RECURSIVE CreateVestingLoop(_, _, _, _, _, _, _)
\* for i in 0..length { vesting_ids.insert(i, Self::create_vesting(...)) }
\* A panic of create_vesting ends the whole call.
CreateVestingLoop(p, b, caller, params, i, vesting_ids, published) ==
    IF i > Len(params.recipients)
    THEN [Result(Ok, p, b, vesting_ids) EXCEPT !.events = published]
    ELSE LET r == CreateElement(p, b, caller, params, i)
         IN  IF r.err # Ok THEN r
             ELSE CreateVestingLoop(r.persistent, r.balance, caller, params,
                                    i + 1, Append(vesting_ids, r.ret),
                                    published \o r.events)

create_vesting_batch(p, b, caller, params) ==
    LET length == Len(params.recipients)
    IN  IF ~PassesAccessControl(p, caller) THEN Result("Not an admin", p, b, <<>>)
        ELSE IF ~(/\ Len(params.start_timestamps) = length
                  /\ Len(params.end_timestamps) = length
                  /\ Len(params.timelocks) = length
                  /\ Len(params.initial_unlocks) = length
                  /\ Len(params.cliff_release_timestamps) = length
                  /\ Len(params.cliff_amounts) = length
                  /\ Len(params.release_interval_secs) = length
                  /\ Len(params.linear_vest_amounts) = length)
        THEN Result("Array length mismatch", p, b, <<>>)
        ELSE CreateVestingLoop(p, b, caller, params, 1, <<>>, <<>>)

(***************************************************************************)
(* Inputs of the calls.                                                    *)
(***************************************************************************)
VestingIds == 0..MaxVestingId
Recipients == {"B", "C"}
\* The deployer that calls init.
InitCallers == {"A"}
\* The addresses that hold the managed token before the first call.
Funded == {"A", "B"}
\* The (admin, is_enabled) pairs set_admin is called with.
SetAdminInputs == {<<"A", FALSE>>, <<"B", TRUE>>, <<"B", FALSE>>, <<"C", FALSE>>}
\* The admins that call withdraw_admin and withdraw_other_token.
Withdrawers == {"A"}

CreateInput(recipient, start_timestamp, end_timestamp, timelock, initial_unlock, cliff_release_timestamp, cliff_amount, release_interval_secs, linear_vest_amount) ==
    [recipient |-> recipient,
     start_timestamp |-> start_timestamp,
     end_timestamp |-> end_timestamp,
     timelock |-> timelock,
     initial_unlock |-> initial_unlock,
     cliff_release_timestamp |-> cliff_release_timestamp,
     cliff_amount |-> cliff_amount,
     release_interval_secs |-> release_interval_secs,
     linear_vest_amount |-> linear_vest_amount]

\* Arguments of create_vesting that pass every assert.
ValidInputs ==
    {CreateInput("C", 2, 4, 0, 1, 0, 0, 1, 2),   \* initial unlock + linear
     CreateInput("B", 2, 4, 3, 0, 0, 0, 2, 2),   \* one release interval, timelock
     CreateInput("C", 2, 4, 0, 1, 3, 1, 1, 2),   \* initial unlock + cliff + linear
     CreateInput("B", 2, 4, 0, 0, 3, 1, 1, 0)}   \* cliff only

\* Arguments one of the asserts rejects.
InvalidInputs ==
    {CreateInput("C", 2, 4, 0, 1, 0, 0, 1, 0),   \* nothing to vest
     CreateInput("C", 0, 4, 0, 1, 0, 0, 1, 2),   \* start = 0
     CreateInput("C", 4, 4, 0, 1, 0, 0, 1, 2),   \* start = end
     CreateInput("C", 2, 4, 0, 1, 0, 0, 0, 2),   \* interval = 0
     CreateInput("C", 2, 4, 0, 1, 0, 1, 1, 2),   \* cliff amount without a cliff
     CreateInput("C", 1, 4, 0, 1, 0, 0, 2, 2),   \* duration not a multiple
     CreateInput("C", 2, 4, 0, 1, 3, 0, 1, 2),   \* cliff without an amount
     CreateInput("C", 2, 4, 0, 1, 1, 1, 1, 2),   \* cliff before start
     CreateInput("C", 2, 4, 0, 1, 4, 1, 1, 2),   \* cliff at end
     CreateInput("C", 2, 4, 0, 1, 3, 1, 2, 2)}   \* cliff duration not a multiple

CreateInputs == ValidInputs \cup InvalidInputs

\* Elements of a batch.
BatchElements ==
    {CreateInput("C", 2, 4, 0, 1, 0, 0, 1, 2),
     CreateInput("C", 2, 4, 0, 1, 0, 0, 0, 2)}

BatchInputs == UNION {[1..n -> BatchElements] : n \in 0..MaxBatch}

\* CreateVestingBatchParams holding the elements, one sequence per field.
CreateVestingBatchParams(elements) ==
    [recipients |-> [i \in DOMAIN elements |-> elements[i].recipient],
     start_timestamps |-> [i \in DOMAIN elements |-> elements[i].start_timestamp],
     end_timestamps |-> [i \in DOMAIN elements |-> elements[i].end_timestamp],
     timelocks |-> [i \in DOMAIN elements |-> elements[i].timelock],
     initial_unlocks |-> [i \in DOMAIN elements |-> elements[i].initial_unlock],
     cliff_release_timestamps |->
         [i \in DOMAIN elements |-> elements[i].cliff_release_timestamp],
     cliff_amounts |-> [i \in DOMAIN elements |-> elements[i].cliff_amount],
     release_interval_secs |->
         [i \in DOMAIN elements |-> elements[i].release_interval_secs],
     linear_vest_amounts |->
         [i \in DOMAIN elements |-> elements[i].linear_vest_amount]]

\* The same parameters with one sequence a element short.
Shortened(params, field) ==
    IF field = "none" \/ Len(params[field]) = 0 THEN params
    ELSE [params EXCEPT ![field] = SubSeq(@, 1, Len(@) - 1)]

ShortFields == {"none", "timelocks"}

(***************************************************************************)
(* The state machine.                                                      *)
(***************************************************************************)
\* The host commits the writes, token movements and events of a call that
\* returned and discards those of a call that panicked: every failure of the
\* contract is a panic (panic!, assert!, unwrap, U256 arithmetic, a failed
\* conversion of a stored value, a panic of the token contract), and no call
\* is made through a try_ client that would catch one.
CommitWritten(r) ==
    /\ persistent' = r.persistent
    /\ balance' = r.balance
    /\ events' = IF logged THEN r.events ELSE <<>>
    /\ UNCHANGED <<logged, instance, deployed>>

Commit(r) ==
    /\ r.err = Ok
    /\ persistent' = r.persistent
    /\ balance' = r.balance
    /\ events' = IF logged THEN r.events ELSE <<>>
    /\ UNCHANGED <<logged, instance, deployed>>

\* The un-vested remainder of a schedule at a timestamp.
Forfeit(vesting, timestamp) ==
    calculate_vested_amount(vesting, vesting.end_timestamp)
        - calculate_vested_amount(vesting, timestamp)

\* Schedules created by the call start with nothing forfeited.
Tracked(p, f) ==
    [id \in DOMAIN GetOr(p, VESTING_BY_ID, EmptyMap) |->
        IF id \in DOMAIN f THEN f[id] ELSE 0]

\* Schedules created by the call start with no revoke.
TrackedTimes(p, t) ==
    [id \in DOMAIN GetOr(p, VESTING_BY_ID, EmptyMap) |->
        IF id \in DOMAIN t THEN t[id] ELSE <<>>]

Init ==
    /\ persistent = EmptyMap
    /\ balance = [token \in Tokens |-> [h \in Holders |->
                    IF token = ManagedToken
                    THEN (IF h \in Funded THEN InitialFunds ELSE 0)
                    ELSE (IF h = Self THEN StrayFunds ELSE 0)]]
    /\ now = 0
    /\ forfeited = EmptyMap
    /\ revoked_at = EmptyMap
    /\ claimed_at = EmptyMap
    /\ events = <<>>
    /\ logged = FALSE
    /\ instance = EmptyMap
    /\ deployed = <<>>

CallInit ==
    \E factory_caller \in InitCallers :
        /\ Commit(init(persistent, balance, factory_caller, ManagedToken))
        /\ UNCHANGED <<now, forfeited, revoked_at, claimed_at>>

CallSetAdmin ==
    \E caller \in Addr, input \in SetAdminInputs :
        /\ Commit(set_admin(persistent, balance, caller, input[1], input[2]))
        /\ UNCHANGED <<now, forfeited, revoked_at, claimed_at>>

\* create_vesting reads RECIPIENT_VESTINGS through is_recipient before it
\* writes it, so the first conjunct only repeats the outcome of that read: it
\* spares enumerating the arguments of calls that the host aborts.
CallCreateVesting ==
    /\ RecipientVestingsReadable(persistent)
    /\ \E caller \in Addr, a \in CreateInputs :
        LET r == create_vesting(persistent, balance, caller, a.recipient,
                                a.start_timestamp, a.end_timestamp, a.timelock,
                                a.initial_unlock, a.cliff_release_timestamp,
                                a.cliff_amount, a.release_interval_secs,
                                a.linear_vest_amount)
        IN  /\ Commit(r)
            /\ forfeited' = Tracked(r.persistent, forfeited)
            /\ revoked_at' = TrackedTimes(r.persistent, revoked_at)
            /\ claimed_at' = TrackedTimes(r.persistent, claimed_at)
            /\ UNCHANGED now

\* The same for the elements of a batch: only an empty batch gets past an
\* unreadable RECIPIENT_VESTINGS.
CallCreateVestingBatch ==
    \E caller \in Addr, elements \in BatchInputs, short \in ShortFields :
        LET r == create_vesting_batch(persistent, balance, caller,
                     Shortened(CreateVestingBatchParams(elements), short))
        IN  /\ IF elements = <<>> THEN TRUE
               ELSE RecipientVestingsReadable(persistent)
            /\ Commit(r)
            /\ forfeited' = Tracked(r.persistent, forfeited)
            /\ revoked_at' = TrackedTimes(r.persistent, revoked_at)
            /\ claimed_at' = TrackedTimes(r.persistent, claimed_at)
            /\ UNCHANGED now

CallClaim ==
    \E caller \in Addr, vesting_id \in VestingIds :
        LET r == claim(persistent, balance, now, caller, vesting_id)
        IN  /\ Commit(r)
            /\ claimed_at' = [claimed_at EXCEPT ![vesting_id] = <<now>>]
            /\ UNCHANGED <<now, forfeited, revoked_at>>

CallRevokeVesting ==
    \E caller \in Addr, vesting_id \in VestingIds :
        LET r == revoke_vesting(persistent, balance, now, caller, vesting_id)
        IN  /\ Commit(r)
            /\ forfeited' = [forfeited EXCEPT ![vesting_id] =
                                @ + Forfeit(get_vesting_info(persistent, vesting_id), now)]
            /\ revoked_at' = [revoked_at EXCEPT ![vesting_id] = Append(@, now)]
            /\ UNCHANGED <<now, claimed_at>>

CallWithdrawAdmin ==
    \E caller \in Withdrawers, amount_requested \in 0..MaxWithdraw :
        LET r == withdraw_admin(persistent, balance, caller, amount_requested)
        IN  /\ Commit(r)
            /\ UNCHANGED <<now, forfeited, revoked_at, claimed_at>>

CallWithdrawOtherToken ==
    \E caller \in Withdrawers, other_token_address \in Tokens :
        LET r == withdraw_other_token(persistent, balance, caller,
                                      other_token_address)
        IN  /\ Commit(r)
            /\ UNCHANGED <<now, forfeited, revoked_at, claimed_at>>

\* The ledger closes and the next one carries a later timestamp.
AdvanceLedger ==
    /\ now < MaxTime
    /\ now' = now + 1
    /\ UNCHANGED <<persistent, balance, forfeited, revoked_at, claimed_at, events,
                   logged, instance, deployed>>

Next ==
    \/ CallInit
    \/ CallSetAdmin
    \/ CallCreateVesting
    \/ CallCreateVestingBatch
    \/ CallClaim
    \/ CallRevokeVesting
    \/ CallWithdrawAdmin
    \/ CallWithdrawOtherToken
    \/ AdvanceLedger

Spec == Init /\ [][Next]_vars

(***************************************************************************)
(* The same operations from the same state after construction, with the    *)
(* events of each invocation recorded.                                     *)
(***************************************************************************)
EventInit ==
    /\ persistent = EmptyMap
    /\ balance = [token \in Tokens |-> [h \in Holders |->
                    IF token = ManagedToken
                    THEN (IF h \in Funded THEN InitialFunds ELSE 0)
                    ELSE (IF h = Self THEN StrayFunds ELSE 0)]]
    /\ now = 0
    /\ forfeited = EmptyMap
    /\ revoked_at = EmptyMap
    /\ claimed_at = EmptyMap
    /\ events = <<>>
    /\ logged = TRUE
    /\ instance = EmptyMap
    /\ deployed = <<>>

EventSpec == EventInit /\ [][Next]_vars

(***************************************************************************)
(* The life of one schedule, for every parameter combination of            *)
(* ScheduleInputs that create_vesting accepts.                             *)
(***************************************************************************)
ScheduleInputs ==
    {CreateInput("B", start_timestamp, end_timestamp, timelock, initial_unlock,
                 cliff_release_timestamp, cliff_amount, release_interval_secs,
                 linear_vest_amount) :
        start_timestamp \in 0..(MaxTime - 1),
        end_timestamp \in 2..MaxTime,
        timelock \in {0, MaxTime - 1},
        initial_unlock \in 0..1,
        cliff_release_timestamp \in 0..MaxTime,
        cliff_amount \in 0..1,
        release_interval_secs \in 0..MaxInterval,
        linear_vest_amount \in {0, MaxLinear}}

\* The admin holds enough of the managed token for the largest schedule.
ScheduleFunds == MaxLinear + 2

ScheduleInit ==
    /\ persistent = EmptyMap
    /\ balance = [token \in Tokens |-> [h \in Holders |->
                    IF token = ManagedToken /\ h \in InitCallers
                    THEN ScheduleFunds ELSE 0]]
    /\ now = 0
    /\ forfeited = EmptyMap
    /\ revoked_at = EmptyMap
    /\ claimed_at = EmptyMap
    /\ events = <<>>
    /\ logged = FALSE
    /\ instance = EmptyMap
    /\ deployed = <<>>

CallCreateSchedule ==
    /\ RecipientVestingsReadable(persistent)
    /\ \E caller \in InitCallers, a \in ScheduleInputs :
        LET r == create_vesting(persistent, balance, caller, a.recipient,
                                a.start_timestamp, a.end_timestamp, a.timelock,
                                a.initial_unlock, a.cliff_release_timestamp,
                                a.cliff_amount, a.release_interval_secs,
                                a.linear_vest_amount)
        IN  /\ Commit(r)
            /\ forfeited' = Tracked(r.persistent, forfeited)
            /\ revoked_at' = TrackedTimes(r.persistent, revoked_at)
            /\ claimed_at' = TrackedTimes(r.persistent, claimed_at)
            /\ UNCHANGED now

ScheduleNext ==
    \/ CallInit
    \/ CallCreateSchedule
    \/ CallCreateVestingBatch
    \/ CallClaim
    \/ CallRevokeVesting
    \/ AdvanceLedger

ScheduleSpec == ScheduleInit /\ [][ScheduleNext]_vars

(***************************************************************************)
(* Properties.  A property of a call is stated of the call's result in     *)
(* every reachable state and for every argument of the sets below.         *)
(***************************************************************************)
Schedules == GetOr(persistent, VESTING_BY_ID, EmptyMap)
Reserved == get_tokens_reserved_for_vesting(persistent)
Held(b, holder) == TokenBalance(b, ManagedToken, holder)
Amounts == 0..(2 * InitialFunds + 1)
AllParams == {Shortened(CreateVestingBatchParams(elements), short) :
                 elements \in BatchInputs, short \in ShortFields}

\* What the host leaves behind after the call: the writes of a call that
\* returned, the state before the call when it panicked.
After(r) ==
    IF r.err = Ok THEN [persistent |-> r.persistent, balance |-> r.balance]
    ELSE [persistent |-> persistent, balance |-> balance]

Unchanged(r) == After(r) = [persistent |-> persistent, balance |-> balance]

Failed(r) == r.err # Ok /\ Unchanged(r)

CreateResult(caller, a) ==
    create_vesting(persistent, balance, caller, a.recipient, a.start_timestamp,
                   a.end_timestamp, a.timelock, a.initial_unlock,
                   a.cliff_release_timestamp, a.cliff_amount,
                   a.release_interval_secs, a.linear_vest_amount)

\* C1: every privileged operation succeeds only if is_admin(caller) holds at
\* the time of the call; for a caller with is_admin(caller) = FALSE, never
\* added or disabled through set_admin, the call fails and changes nothing.
C1_PrivilegedOnlyForAdmins ==
    \A caller \in Addr :
        ~is_admin(persistent, caller) =>
            /\ \A admin \in Addr, is_enabled \in BOOLEAN :
                   Failed(set_admin(persistent, balance, caller, admin, is_enabled))
            /\ \A a \in CreateInputs : Failed(CreateResult(caller, a))
            /\ \A params \in AllParams :
                   Failed(create_vesting_batch(persistent, balance, caller, params))
            /\ \A vesting_id \in VestingIds :
                   Failed(revoke_vesting(persistent, balance, now, caller, vesting_id))
            /\ \A amount \in Amounts :
                   Failed(withdraw_admin(persistent, balance, caller, amount))
            /\ \A token \in Tokens :
                   Failed(withdraw_other_token(persistent, balance, caller, token))

\* The total of a schedule, what is left of it after claims and revokes.
Total(vesting) ==
    vesting.initial_unlock + vesting.cliff_amount + vesting.linear_vest_amount

RECURSIVE SumOver(_, _)
SumOver(ids, f) ==
    IF ids = {} THEN 0
    ELSE LET id == CHOOSE x \in ids : TRUE
         IN  f[id] + SumOver(ids \ {id}, f)

Outstanding ==
    [id \in DOMAIN Schedules |->
        Total(Schedules[id]) - Schedules[id].claimed_amount - forfeited[id]]

\* C2: after every successful operation reserved equals the sum over all
\* schedules of total - claimed_amount - amount forfeited at its revokes, and
\* the calls other than create, claim and revoke leave reserved as it is.
C2_ReservedIsSum ==
    /\ Reserved = SumOver(DOMAIN Schedules, Outstanding)
    /\ \A caller \in Addr :
        /\ \A admin \in Addr, is_enabled \in BOOLEAN :
               get_tokens_reserved_for_vesting(
                   After(set_admin(persistent, balance, caller, admin,
                                   is_enabled)).persistent) = Reserved
        /\ \A amount \in Amounts :
               get_tokens_reserved_for_vesting(
                   After(withdraw_admin(persistent, balance, caller,
                                        amount)).persistent) = Reserved
        /\ \A token \in Tokens :
               get_tokens_reserved_for_vesting(
                   After(withdraw_other_token(persistent, balance, caller,
                                              token)).persistent) = Reserved

\* A schedule that was claimed from and then revoked with a remainder.
C2_Witness ==
    \E id \in DOMAIN Schedules :
        /\ Schedules[id].claimed_amount > 0
        /\ forfeited[id] > 0
        /\ Reserved > 0

C3_WitnessBeforeStart ==
    \E id \in DOMAIN Schedules :
        LET v == Schedules[id]
        IN  /\ revoked_at[id] # <<>>
            /\ revoked_at[id][1] < v.start_timestamp
            /\ now >= v.start_timestamp
            /\ v.initial_unlock > 0
            /\ claim(persistent, balance, now, v.recipient, id).err = Trap

\* C4: withdraw_admin by an admin succeeds exactly when the amount is at most
\* balance - reserved; it then moves exactly that amount from the contract to
\* the caller, leaves reserved unchanged and the balance at or above reserved.
C4_WithdrawAdmin ==
    \A caller \in Addr, amount \in Amounts :
        LET r == withdraw_admin(persistent, balance, caller, amount)
        IN  is_admin(persistent, caller) =>
            /\ r.err = Ok <=> amount <= Held(balance, Self) - Reserved
            /\ r.err = Ok =>
                /\ Held(r.balance, Self) = Held(balance, Self) - amount
                /\ Held(r.balance, caller) = Held(balance, caller) + amount
                /\ \A h \in Addr \ {caller} : Held(r.balance, h) = Held(balance, h)
                /\ r.balance[OtherToken] = balance[OtherToken]
                /\ r.persistent = persistent
                /\ Held(r.balance, Self) >= Reserved
            /\ r.err # Ok => Unchanged(r)

\* Part of the forfeited tokens was withdrawn, part is still withdrawable.
C4_Witness ==
    /\ Has(persistent, TOKEN_ADDRESS)
    /\ AmountToWithdrawDefined(persistent, balance)
    /\ amount_to_withdraw_by_admin(persistent, balance) > 0
    /\ \E id \in DOMAIN Schedules :
           amount_to_withdraw_by_admin(persistent, balance) < forfeited[id]
    /\ \E caller \in Addr :
        /\ is_admin(persistent, caller)
        /\ withdraw_admin(persistent, balance, caller,
               amount_to_withdraw_by_admin(persistent, balance) + 1).err
               = "Insuffisance balance"

\* C5: claim succeeds only for the recipient stored in the schedule; for
\* every other caller, admins included, it fails with "Not vesting owner"
\* and changes nothing.
C5_ClaimOnlyByRecipient ==
    \A caller \in Addr, id \in DOMAIN Schedules :
        LET r == claim(persistent, balance, now, caller, id)
        IN  /\ r.err = Ok => caller = Schedules[id].recipient
            /\ caller # Schedules[id].recipient =>
                   r.err = "Not vesting owner" /\ Unchanged(r)

\* An admin who is not the recipient is refused a claim the recipient gets.
C5_Witness ==
    \E caller \in Addr, id \in DOMAIN Schedules :
        /\ is_admin(persistent, caller)
        /\ caller # Schedules[id].recipient
        /\ claim(persistent, balance, now, caller, id).err = "Not vesting owner"
        /\ claim(persistent, balance, now, Schedules[id].recipient, id).err = Ok

\* C6: a successful claim at ledger time now transfers exactly
\* calculate_vested_amount(v, now) - claimed_amount from the contract to the
\* caller, sets claimed_amount to calculate_vested_amount(v, now), and
\* decreases reserved by the same amount.
C6_ClaimEffect ==
    \A caller \in Addr, id \in DOMAIN Schedules :
        LET r == claim(persistent, balance, now, caller, id)
            v == Schedules[id]
            claimable == calculate_vested_amount(v, now) - v.claimed_amount
        IN  r.err = Ok =>
            /\ claimable > 0
            /\ Held(r.balance, caller) = Held(balance, caller) + claimable
            /\ Held(r.balance, Self) = Held(balance, Self) - claimable
            /\ get_vesting_info(r.persistent, id).claimed_amount
                   = calculate_vested_amount(v, now)
            /\ get_tokens_reserved_for_vesting(r.persistent) = Reserved - claimable

\* A second claim on a schedule that was already claimed from.
C6_Witness ==
    \E id \in DOMAIN Schedules :
        /\ Schedules[id].claimed_amount > 0
        /\ claim(persistent, balance, now, Schedules[id].recipient, id).err = Ok

\* C7: a successful revoke_vesting at ledger time now decreases reserved by
\* exactly calculate_vested_amount(v, end) - calculate_vested_amount(v, now),
\* moves no tokens, and so raises amount_to_withdraw_by_admin by that amount.
C7_RevokeEffect ==
    \A caller \in Addr, id \in DOMAIN Schedules :
        LET r == revoke_vesting(persistent, balance, now, caller, id)
            v == Schedules[id]
            forfeit == calculate_vested_amount(v, v.end_timestamp)
                           - calculate_vested_amount(v, now)
        IN  r.err = Ok =>
            /\ forfeit >= 0
            /\ get_tokens_reserved_for_vesting(r.persistent) = Reserved - forfeit
            /\ r.balance = balance
            /\ AmountToWithdrawDefined(r.persistent, r.balance)
            /\ amount_to_withdraw_by_admin(r.persistent, r.balance)
                   = amount_to_withdraw_by_admin(persistent, balance) + forfeit
            /\ get_tokens_reserved_for_vesting(r.persistent)
                   >= calculate_vested_amount(v, now) - v.claimed_amount

\* A revoke is possible while part of the schedule is vested and unclaimed.
C7_Witness ==
    \E caller \in Addr, id \in DOMAIN Schedules :
        LET v == Schedules[id]
        IN  /\ revoke_vesting(persistent, balance, now, caller, id).err = Ok
            /\ calculate_vested_amount(v, now) > v.claimed_amount
            /\ calculate_vested_amount(v, now)
                   < calculate_vested_amount(v, v.end_timestamp)

\* C8: after a successful revoke_vesting, at any ledger time, the schedule has
\* deactivation_timestamp # 0, every later revoke_vesting of it fails, and
\* the deactivation_timestamp never changes again.
C8_RevokedIsTerminal ==
    \A caller \in Addr, id \in DOMAIN Schedules :
        LET r == revoke_vesting(persistent, balance, now, caller, id)
        IN  r.err = Ok =>
            /\ get_vesting_info(r.persistent, id).deactivation_timestamp # 0
            /\ \A later \in now..MaxTime, again \in Addr :
                   revoke_vesting(r.persistent, r.balance, later, again, id).err
                       = "Vesting not active"

\* C9: after init the admin count is at least 1, and disabling fails whenever
\* the count is 1: with "There must always be at least 1 admin" when the
\* earlier checks of set_admin pass.
C9_AtLeastOneAdmin ==
    Has(persistent, ADMINS) =>
        /\ get_admins_count(persistent) >= 1
        /\ get_admins_count(persistent) = 1 =>
            \A caller \in Addr, admin \in Addr :
                LET r == set_admin(persistent, balance, caller, admin, FALSE)
                IN  /\ Failed(r)
                    /\ (is_admin(persistent, caller) /\ is_admin(persistent, admin))
                           => r.err = "There must always be at least 1 admin"

\* The count is back at 1 after an admin was added and removed.
C9_Witness ==
    /\ Has(persistent, ADMINS)
    /\ get_admins_count(persistent) = 1
    /\ \E admin \in Addr :
        /\ MapHas(persistent[ADMINS], admin)
        /\ ~is_admin(persistent, admin)
    /\ \E caller \in Addr :
           set_admin(persistent, balance, caller, caller, FALSE).err
               = "There must always be at least 1 admin"

\* C10: set_admin fails with "Flag provided already set", changing neither
\* membership nor count, whenever is_admin(target) = enable before the call,
\* also when the target was never added.
C10_AlreadyInState ==
    \A caller \in Addr, admin \in Addr, is_enabled \in BOOLEAN :
        LET r == set_admin(persistent, balance, caller, admin, is_enabled)
        IN  (is_admin(persistent, caller) /\ is_admin(persistent, admin) = is_enabled)
                => r.err = "Flag provided already set" /\ Unchanged(r)

\* The conditions I1-I6 on the parameters of a schedule.
SatisfiesI1toI6(v) ==
    /\ v.start_timestamp > 0 /\ v.start_timestamp < v.end_timestamp
    /\ v.initial_unlock >= 0 /\ v.cliff_amount >= 0 /\ v.linear_vest_amount >= 0
    /\ v.cliff_amount + v.linear_vest_amount > 0
    /\ v.release_interval_secs > 0
    /\ v.cliff_release_timestamp = 0 =>
           /\ v.cliff_amount = 0
           /\ (v.end_timestamp - v.start_timestamp) % v.release_interval_secs = 0
    /\ v.cliff_release_timestamp # 0 =>
           /\ v.cliff_amount > 0
           /\ v.start_timestamp <= v.cliff_release_timestamp
           /\ v.cliff_release_timestamp < v.end_timestamp
           /\ (v.end_timestamp - v.cliff_release_timestamp)
                  % v.release_interval_secs = 0

\* C11: every stored schedule satisfies I1-I6, and a create_vesting or
\* create_vesting_batch call with parameters violating one of them fails and
\* stores nothing.
C11_StoredSchedulesValid ==
    /\ \A id \in DOMAIN Schedules : SatisfiesI1toI6(Schedules[id])
    /\ \A caller \in Addr, a \in CreateInputs :
           ~SatisfiesI1toI6(a) => Failed(CreateResult(caller, a))
    /\ RecipientVestingsReadable(persistent) =>
           \A caller \in Addr, a \in ScheduleInputs :
               ~SatisfiesI1toI6(a) => Failed(CreateResult(caller, a))
    /\ \A caller \in Addr, elements \in BatchInputs :
           (\E i \in DOMAIN elements : ~SatisfiesI1toI6(elements[i])) =>
               Failed(create_vesting_batch(persistent, balance, caller,
                                           CreateVestingBatchParams(elements)))

\* A schedule with a cliff and a release interval longer than one is stored.
C11_Witness ==
    \E id \in DOMAIN Schedules :
        /\ Schedules[id].cliff_release_timestamp # 0
        /\ Schedules[id].release_interval_secs > 1
        /\ Schedules[id].linear_vest_amount > 0

\* What C12 says of a create_vesting call that returned.
CreateEffect(caller, a, r) ==
    LET total == a.initial_unlock + a.cliff_amount + a.linear_vest_amount
    IN  /\ ~HasVesting(persistent, r.ret)
        /\ HasVesting(r.persistent, r.ret)
        /\ get_vesting_info(r.persistent, r.ret) =
               [recipient |-> a.recipient,
                start_timestamp |-> a.start_timestamp,
                end_timestamp |-> a.end_timestamp,
                deactivation_timestamp |-> 0,
                timelock |-> a.timelock,
                release_interval_secs |-> a.release_interval_secs,
                cliff_release_timestamp |-> a.cliff_release_timestamp,
                initial_unlock |-> a.initial_unlock,
                cliff_amount |-> a.cliff_amount,
                linear_vest_amount |-> a.linear_vest_amount,
                claimed_amount |-> 0]
        /\ get_tokens_reserved_for_vesting(r.persistent) = Reserved + total
        /\ Held(r.balance, caller) = Held(balance, caller) - total
        /\ Held(r.balance, Self) = Held(balance, Self) + total
        /\ \A h \in Addr \ {caller} : Held(r.balance, h) = Held(balance, h)
        /\ AmountToWithdrawDefined(persistent, balance)
        /\ AmountToWithdrawDefined(r.persistent, r.balance)
        /\ amount_to_withdraw_by_admin(r.persistent, r.balance)
               = amount_to_withdraw_by_admin(persistent, balance)

\* C12: a create_vesting call that returns has stored under the returned id
\* exactly the given parameters with claimed_amount = 0 and
\* deactivation_timestamp = 0, raised reserved by initial_unlock +
\* cliff_amount + linear_vest_amount, moved that amount of the managed token
\* from the caller to the contract, and left amount_to_withdraw_by_admin as
\* it was.
C12_CreateEffect ==
    /\ \A caller \in Addr, a \in CreateInputs :
           LET r == CreateResult(caller, a)
           IN  r.err = Ok => CreateEffect(caller, a, r)
    /\ RecipientVestingsReadable(persistent) =>
           \A caller \in Addr, a \in ScheduleInputs :
               LET r == CreateResult(caller, a)
               IN  r.err = Ok => CreateEffect(caller, a, r)

\* A schedule with all three amounts was just created: nothing else is
\* reserved or held.
C12_Witness ==
    \E id \in DOMAIN Schedules :
        LET v == Schedules[id]
        IN  /\ v.initial_unlock > 0 /\ v.cliff_amount > 0 /\ v.linear_vest_amount > 0
            /\ v.claimed_amount = 0
            /\ revoked_at[id] = <<>>
            /\ Reserved = Total(v)
            /\ Held(balance, Self) = Total(v)
            /\ Held(balance, "A") = ScheduleFunds - Total(v)

Nonce == GetOr(persistent, NONCE, 0)

IdsOf(recipient) ==
    LET OfRecipient(id) == Schedules[id].recipient = recipient
    IN  SelectSeq([i \in 1..Cardinality(DOMAIN Schedules) |-> i - 1], OfRecipient)

\* C14: for every address r, get_all_recipient_vestings(r) returns exactly
\* the ids of the schedules whose recipient is r, in creation order,
\* get_all_recipient_vestings_len(r) its length, and is_recipient(r) is
\* true exactly when that list is not empty.
C14_RecipientVestings ==
    \A r \in Addr :
        /\ RecipientVestingsReadable(persistent)
        /\ get_all_recipient_vestings(persistent, r) = IdsOf(r)
        /\ get_all_recipient_vestings_len(persistent, r) = Len(IdsOf(r))
        /\ is_recipient(persistent, r) <=> IdsOf(r) # <<>>

\* A schedule is stored: the recipient index was written.
C14_Witness ==
    /\ Schedules # EmptyMap
    /\ Has(persistent, RECIPIENT_VESTINGS)

Range(seq) == {seq[i] : i \in DOMAIN seq}

\* The recipients of the schedules with ids below n, each once, in the order
\* of their first schedule.
RECURSIVE FirstAppearances(_)
FirstAppearances(n) ==
    IF n = 0 THEN <<>>
    ELSE LET earlier == FirstAppearances(n - 1)
             recipient == Schedules[n - 1].recipient
         IN  IF recipient \in Range(earlier) THEN earlier
             ELSE Append(earlier, recipient)

RefTimes == 0..(MaxTime + 2)

\* C16: for every stored schedule that is not revoked,
\* calculate_vested_amount at end_timestamp and at every later time is
\* initial_unlock + cliff_amount + linear_vest_amount.
C16_FullyVestedAtEnd ==
    \A id \in DOMAIN Schedules :
        LET v == Schedules[id]
        IN  v.deactivation_timestamp = 0 =>
                \A t \in RefTimes :
                    t >= v.end_timestamp =>
                        calculate_vested_amount(v, t)
                            = v.initial_unlock + v.cliff_amount + v.linear_vest_amount

\* A schedule with all three amounts, claimed in full at its end.
C16_Witness ==
    \E id \in DOMAIN Schedules :
        LET v == Schedules[id]
        IN  /\ v.deactivation_timestamp = 0
            /\ v.initial_unlock > 0 /\ v.cliff_amount > 0 /\ v.linear_vest_amount > 0
            /\ now >= v.end_timestamp
            /\ v.claimed_amount = Total(v)

\* C17: for every stored schedule, revoked or not, calculate_vested_amount
\* does not decrease with the reference time.
C17_Monotonic ==
    \A id \in DOMAIN Schedules :
        \A t1 \in RefTimes, t2 \in RefTimes :
            t1 <= t2 =>
                calculate_vested_amount(Schedules[id], t1)
                    <= calculate_vested_amount(Schedules[id], t2)

\* A revoked schedule with a cliff whose vested amount grew before the revoke.
C17_Witness ==
    \E id \in DOMAIN Schedules :
        LET v == Schedules[id]
            d == v.deactivation_timestamp
        IN  /\ d # 0
            /\ v.cliff_amount > 0
            /\ calculate_vested_amount(v, 0) < calculate_vested_amount(v, d)
            /\ calculate_vested_amount(v, d) < Total(v)

\* C18: for every stored schedule revoked at d # 0 and every reference time
\* t >= d, calculate_vested_amount(v, t) = calculate_vested_amount(v, d).
C18_PinnedAtDeactivation ==
    \A id \in DOMAIN Schedules :
        LET v == Schedules[id]
            d == v.deactivation_timestamp
        IN  d # 0 =>
                \A t \in RefTimes :
                    t >= d => calculate_vested_amount(v, t)
                                  = calculate_vested_amount(v, d)

\* A schedule revoked at a time d # 0.
C18_Witness ==
    \E id \in DOMAIN Schedules :
        /\ Schedules[id].deactivation_timestamp # 0
        /\ now > Schedules[id].deactivation_timestamp

\* C19: for every stored schedule that is not revoked,
\* calculate_vested_amount is 0 before start_timestamp, so that a claim
\* before the start fails, and at start_timestamp it is initial_unlock, plus
\* cliff_amount when cliff_release_timestamp <= start_timestamp.
C19_AtStart ==
    \A id \in DOMAIN Schedules :
        LET v == Schedules[id]
        IN  v.deactivation_timestamp = 0 =>
            /\ \A t \in RefTimes :
                   t < v.start_timestamp => calculate_vested_amount(v, t) = 0
            /\ now < v.start_timestamp =>
                   \A caller \in Addr :
                       Failed(claim(persistent, balance, now, caller, id))
            /\ calculate_vested_amount(v, v.start_timestamp)
                   = v.initial_unlock
                       + (IF v.cliff_release_timestamp <= v.start_timestamp
                          THEN v.cliff_amount ELSE 0)

\* At its start a schedule whose cliff is at the start paid out the initial
\* unlock and the cliff amount.
C19_Witness ==
    \E id \in DOMAIN Schedules :
        LET v == Schedules[id]
        IN  /\ v.deactivation_timestamp = 0
            /\ now = v.start_timestamp
            /\ v.cliff_release_timestamp = v.start_timestamp
            /\ v.initial_unlock > 0
            /\ v.linear_vest_amount > 0
            /\ v.claimed_amount = v.initial_unlock + v.cliff_amount

\* The storage with the timelock of a schedule replaced.
WithTimelock(p, id, timelock) ==
    Set(p, VESTING_BY_ID,
        MapSet(p[VESTING_BY_ID], id,
               [p[VESTING_BY_ID][id] EXCEPT !.timelock = timelock]))

\* The timelock of a schedule affects neither the calculator nor
\* revoke_vesting.
TimelockIndependent ==
    \A id \in DOMAIN Schedules, timelock \in RefTimes :
        LET v == Schedules[id]
            w == [v EXCEPT !.timelock = timelock]
        IN  /\ \A t \in RefTimes :
                   calculate_vested_amount(w, t) = calculate_vested_amount(v, t)
            /\ \A caller \in Addr :
                   LET r == revoke_vesting(persistent, balance, now, caller, id)
                       q == revoke_vesting(WithTimelock(persistent, id, timelock),
                                           balance, now, caller, id)
                   IN  /\ q.err = r.err
                       /\ q.ret = r.ret
                       /\ q.balance = r.balance
                       /\ q.persistent = WithTimelock(r.persistent, id, timelock)

\* C20: a claim by the recipient fails with "Timelock enabled" at every
\* ledger time now < timelock, whatever amount is vested; from now = timelock
\* on it succeeds when calculate_vested_amount(v, now) exceeds claimed_amount;
\* the timelock affects neither calculate_vested_amount nor revoke_vesting.
C20_Timelock ==
    /\ \A id \in DOMAIN Schedules :
        LET v == Schedules[id]
            r == claim(persistent, balance, now, v.recipient, id)
        IN  /\ now < v.timelock => r.err = "Timelock enabled" /\ Unchanged(r)
            /\ (now >= v.timelock
                    /\ calculate_vested_amount(v, now) > v.claimed_amount)
                   => r.err = Ok
    /\ TimelockIndependent

\* The timelock holds back a claim of an amount that is vested.
C20_Witness ==
    \E id \in DOMAIN Schedules :
        LET v == Schedules[id]
        IN  /\ now < v.timelock
            /\ now >= v.start_timestamp
            /\ calculate_vested_amount(v, now) > v.claimed_amount
            /\ claim(persistent, balance, now, v.recipient, id).err
                   = "Timelock enabled"

\* The amount revoke_vesting counted as vested when it revoked the schedule:
\* its vested_amount_now.
VestedAtDeactivation(id) ==
    LET d == revoked_at[id][1]
    IN  calculate_vested_amount(
            [Schedules[id] EXCEPT !.deactivation_timestamp = d], d)

NothingToClaim(r) ==
    /\ r.err = "Insufficient balance to claim"
    /\ Unchanged(r)
    /\ r.events = <<>>

\* A claim by the recipient, once the timelock has passed, fails with
\* "Insufficient balance to claim" whenever calculate_vested_amount(v, now)
\* equals claimed_amount.
C21_NothingVestedSinceLastClaim ==
    \A id \in DOMAIN Schedules :
        LET v == Schedules[id]
            r == claim(persistent, balance, now, v.recipient, id)
        IN  (now >= v.timelock /\ calculate_vested_amount(v, now) = v.claimed_amount)
                => NothingToClaim(r)

\* On a revoked schedule the same failure once the amount vested at the
\* deactivation has been claimed.
C21_RevokedAndClaimed ==
    \A id \in DOMAIN Schedules :
        LET v == Schedules[id]
            r == claim(persistent, balance, now, v.recipient, id)
        IN  (revoked_at[id] # <<>> /\ now >= v.timelock
                 /\ v.claimed_amount = VestedAtDeactivation(id))
                => NothingToClaim(r)

\* C21: claim fails with "Insufficient balance to claim", transferring
\* nothing and changing no state, whenever calculate_vested_amount(v, now) =
\* claimed_amount: before anything has vested, on a second claim within the
\* same release interval, and on a revoked schedule once the amount vested at
\* deactivation has been claimed.
C21_NothingToClaim ==
    /\ C21_NothingVestedSinceLastClaim
    /\ C21_RevokedAndClaimed

\* The recipient has claimed what was vested when the schedule was revoked
\* and claims again.
C21_Witness ==
    \E id \in DOMAIN Schedules :
        LET v == Schedules[id]
        IN  /\ revoked_at[id] # <<>>
            /\ v.claimed_amount > 0
            /\ v.claimed_amount = VestedAtDeactivation(id)
            /\ now > claimed_at[id][1]
            /\ NothingToClaim(claim(persistent, balance, now, v.recipient, id))

\* C22: revoke_vesting by an admin on an active schedule fails with "All
\* vested amount already claimed", leaving the schedule active and reserved
\* unchanged, when claimed_amount = calculate_vested_amount(v,
\* end_timestamp); on a schedule that is fully vested (now >= end_timestamp)
\* but not fully claimed it succeeds with a forfeit of 0 and reserved
\* unchanged.
C22_RevokeFullyClaimed ==
    \A caller \in Addr, id \in DOMAIN Schedules :
        LET v == Schedules[id]
            final == calculate_vested_amount(v, v.end_timestamp)
            r == revoke_vesting(persistent, balance, now, caller, id)
        IN  (PassesAccessControl(persistent, caller) /\ v.deactivation_timestamp = 0)
            =>  /\ v.claimed_amount = final =>
                    /\ r.err = "All vested amount already claimed"
                    /\ Unchanged(r)
                    /\ r.events = <<>>
                /\ (v.claimed_amount # final /\ now >= v.end_timestamp) =>
                    /\ r.err = Ok
                    /\ r.ret = 0
                    /\ get_tokens_reserved_for_vesting(r.persistent) = Reserved
                    /\ r.balance = balance

\* An active schedule claimed in full after its end, which an admin revokes.
C22_Witness ==
    \E id \in DOMAIN Schedules :
        LET v == Schedules[id]
            final == calculate_vested_amount(v, v.end_timestamp)
        IN  /\ v.deactivation_timestamp = 0
            /\ revoked_at[id] = <<>>
            /\ now >= v.end_timestamp
            /\ v.claimed_amount > 0
            /\ v.claimed_amount = final
            /\ revoke_vesting(persistent, balance, now, "A", id).err
                   = "All vested amount already claimed"

\* An active schedule past its end and claimed in part, which an admin
\* revokes.
C22_WitnessNotFullyClaimed ==
    \E id \in DOMAIN Schedules :
        LET v == Schedules[id]
        IN  /\ revoked_at[id] = <<>>
            /\ now >= v.end_timestamp
            /\ v.claimed_amount > 0
            /\ v.claimed_amount < calculate_vested_amount(v, v.end_timestamp)
            /\ revoke_vesting(persistent, balance, now, "A", id).err = Ok

\* Two event lists are equal, comparing the data only under equal topics.
SameEvents(e1, e2) ==
    /\ Len(e1) = Len(e2)
    /\ \A i \in 1..Len(e1) :
           /\ e1[i].topic = e2[i].topic
           /\ e1[i].data = e2[i].data

\* The step leaves behind exactly what a call wrote that returned.
Returned(r) ==
    /\ r.err = Ok
    /\ persistent' = r.persistent
    /\ balance' = r.balance
    /\ SameEvents(events', r.events)

\* The arguments create_vesting was given for a schedule.
InputOf(vesting) ==
    CreateInput(vesting.recipient, vesting.start_timestamp, vesting.end_timestamp,
                vesting.timelock, vesting.initial_unlock,
                vesting.cliff_release_timestamp, vesting.cliff_amount,
                vesting.release_interval_secs, vesting.linear_vest_amount)

\* Some call returned and left the step's new values behind. The events of
\* the step name the operation and its arguments; init, withdraw_other_token
\* and an empty batch publish none.
SomeCallReturned ==
    LET published == events'
        data == published[1].data
        elements == [i \in 1..Len(published) |-> InputOf(published[i].data[3])]
    IN  IF published = <<>>
        THEN \/ \E factory_caller \in Addr, token_address \in Tokens :
                    Returned(init(persistent, balance, factory_caller, token_address))
             \/ \E caller \in Addr, other_token_address \in Tokens :
                    Returned(withdraw_other_token(persistent, balance, caller,
                                                  other_token_address))
             \/ \E caller \in Addr :
                    Returned(create_vesting_batch(persistent, balance, caller,
                                 CreateVestingBatchParams(<<>>)))
        ELSE CASE published[1].topic = ADMIN_ACCESS_SET ->
                      \E caller \in Addr :
                          Returned(set_admin(persistent, balance, caller,
                                             data[1], data[2]))
               [] published[1].topic = VESTING_CREATED ->
                      \E caller \in Addr :
                          \/ Returned(CreateResult(caller, InputOf(data[3])))
                          \/ Returned(create_vesting_batch(persistent, balance, caller,
                                          CreateVestingBatchParams(elements)))
               [] published[1].topic = CLAIMED ->
                      Returned(claim(persistent, balance, now, data[2], data[1]))
               [] published[1].topic = VESTING_REVOKED ->
                      \E caller \in Addr :
                          Returned(revoke_vesting(persistent, balance, now, caller,
                                                  data[1]))
               [] published[1].topic = ADMIN_WITHDRAWN ->
                      Returned(withdraw_admin(persistent, balance, data[1], data[2]))

Fields ==
    {"recipients", "start_timestamps", "end_timestamps", "timelocks",
     "initial_unlocks", "cliff_release_timestamps", "cliff_amounts",
     "release_interval_secs", "linear_vest_amounts"}

\* Batches of valid elements.
ValidBatches == UNION {[1..n -> ValidInputs] : n \in 1..MaxBatch}

BatchTotal(elements) ==
    SumOver(DOMAIN elements, [i \in DOMAIN elements |-> Total(elements[i])])

\* A batch with one sequence of another length fails with "Array length
\* mismatch" and creates nothing.
C24_LengthMismatch ==
    \A caller \in Addr, elements \in ValidBatches, field \in Fields :
        LET r == create_vesting_batch(persistent, balance, caller,
                     Shortened(CreateVestingBatchParams(elements), field))
        IN  PassesAccessControl(persistent, caller) =>
                /\ r.err = "Array length mismatch"
                /\ Unchanged(r)
                /\ r.events = <<>>

\* A batch of n valid elements that the caller can pay creates n schedules
\* in index order under the ids from the nonce on.
C24_CreatesInOrder ==
    \A caller \in Addr, elements \in ValidBatches :
        LET r == create_vesting_batch(persistent, balance, caller,
                     CreateVestingBatchParams(elements))
            n == Len(elements)
        IN  (is_admin(persistent, caller)
                 /\ BatchTotal(elements) <= Held(balance, caller))
            =>  /\ r.err = Ok
                /\ r.ret = [i \in 1..n |-> Nonce + i - 1]
                /\ \A i \in 1..n :
                       /\ HasVesting(r.persistent, Nonce + i - 1)
                       /\ InputOf(get_vesting_info(r.persistent, Nonce + i - 1))
                              = elements[i]

\* C24: create_vesting_batch fails with "Array length mismatch", creating
\* nothing, if any of the nine parameter sequences differs in length from
\* the others; otherwise, for n valid elements, it creates n schedules in
\* index order and returns their ids as the list nonce_before,
\* nonce_before+1, ..., nonce_before+n-1, element i holding the i-th entry
\* of every sequence.
C24_Batch ==
    /\ C24_LengthMismatch
    /\ C24_CreatesInOrder

\* An admin submits a batch of two valid elements with one sequence short.
C24_Witness ==
    \E elements \in ValidBatches, field \in Fields :
        /\ Len(elements) = 2
        /\ is_admin(persistent, "A")
        /\ create_vesting_batch(persistent, balance, "A",
               Shortened(CreateVestingBatchParams(elements), field)).err
               = "Array length mismatch"

\* Batches that mix valid and invalid elements.
MixedBatches ==
    UNION {[1..n -> BatchElements \cup {CreateInput("B", 2, 4, 0, 0, 3, 1, 1, 0)}] :
               n \in 1..MaxBatch}

\* The element at index i does not pass the asserts of create_vesting, or
\* the caller cannot pay the elements up to it.
ElementFails(caller, elements, i) ==
    \/ CreateVestingCheck(elements[i].start_timestamp, elements[i].end_timestamp,
                          elements[i].cliff_release_timestamp,
                          elements[i].cliff_amount,
                          elements[i].release_interval_secs,
                          elements[i].linear_vest_amount) # Ok
    \/ BatchTotal(SubSeq(elements, 1, i)) > Held(balance, caller)

\* C25: create_vesting_batch is all-or-nothing: if the element at any index
\* fails validation or its token transfer fails, the call fails, no
\* schedule of the batch exists afterwards, also none of those before the
\* failing index, and storage, token balances and events are those from
\* before the call; a batch that returns has created every element.
C25_AllOrNothing ==
    \A caller \in Addr, elements \in MixedBatches :
        LET r == create_vesting_batch(persistent, balance, caller,
                     CreateVestingBatchParams(elements))
            n == Len(elements)
        IN  /\ (\E i \in 1..n : ElementFails(caller, elements, i)) =>
                   /\ r.err # Ok
                   /\ After(r).persistent = persistent
                   /\ After(r).balance = balance
            /\ r.err = Ok =>
                   /\ DOMAIN GetOr(r.persistent, VESTING_BY_ID, EmptyMap)
                          = 0..(Nonce + n - 1)
                   /\ Len(r.events) = n

\* The first element of a batch is valid and written, the second fails: the
\* result holds the first element's schedule and the call fails.
C25_Witness ==
    \E elements \in MixedBatches :
        LET r == create_vesting_batch(persistent, balance, "A",
                     CreateVestingBatchParams(elements))
        IN  /\ Len(elements) = 2
            /\ ~ElementFails("A", elements, 1)
            /\ ElementFails("A", elements, 2)
            /\ ~HasVesting(persistent, 0)
            /\ HasVesting(r.persistent, 0)
            /\ r.err # Ok

\* C26: withdraw_other_token(caller, other) by an admin fails with "Invalid
\* other token" when other is the managed token, moving nothing; otherwise
\* it transfers the contract's entire balance of other to caller and leaves
\* the managed token's balances, reserved and every schedule unchanged.
C26_WithdrawOtherToken ==
    \A caller \in Addr, other \in Tokens :
        LET r == withdraw_other_token(persistent, balance, caller, other)
            held == TokenBalance(balance, other, Self)
        IN  (is_admin(persistent, caller) /\ Has(persistent, TOKEN_ADDRESS)) =>
                IF other = get_token_address(persistent)
                THEN /\ r.err = "Invalid other token"
                     /\ Unchanged(r)
                ELSE /\ r.err = Ok
                     /\ r.ret = held
                     /\ TokenBalance(r.balance, other, Self) = 0
                     /\ TokenBalance(r.balance, other, caller)
                            = TokenBalance(balance, other, caller) + held
                     /\ \A h \in Addr \ {caller} :
                            TokenBalance(r.balance, other, h)
                                = TokenBalance(balance, other, h)
                     /\ r.balance[ManagedToken] = balance[ManagedToken]
                     /\ r.persistent = persistent

\* The contract holds another token next to reserved tokens of a schedule,
\* and an admin withdraws the other token.
C26_Witness ==
    /\ Reserved > 0
    /\ Schedules # EmptyMap
    /\ TokenBalance(balance, OtherToken, Self) > 0
    /\ is_admin(persistent, "A")
    /\ withdraw_other_token(persistent, balance, "A", OtherToken).err = Ok
    /\ withdraw_other_token(persistent, balance, "A", ManagedToken).err
           = "Invalid other token"

\* The call published exactly one event, with the topic and the payload.
PublishedOne(r, topic, data) ==
    /\ Len(r.events) = 1
    /\ r.events[1].topic = topic
    /\ r.events[1].data = data

\* set_admin, create_vesting, create_vesting_batch, claim, revoke_vesting and
\* withdraw_admin publish one event per effect, with the payload.
C27_EventsOfTheManagedToken ==
    /\ \A caller \in Addr, input \in SetAdminInputs :
           LET r == set_admin(persistent, balance, caller, input[1], input[2])
           IN  r.err = Ok =>
                   PublishedOne(r, ADMIN_ACCESS_SET, <<input[1], input[2]>>)
    /\ \A caller \in Addr, a \in CreateInputs :
           LET r == CreateResult(caller, a)
           IN  r.err = Ok =>
                   PublishedOne(r, VESTING_CREATED,
                       <<Nonce, a.recipient, get_vesting_info(r.persistent, Nonce)>>)
    /\ \A caller \in Addr, elements \in MixedBatches :
           LET r == create_vesting_batch(persistent, balance, caller,
                        CreateVestingBatchParams(elements))
           IN  r.err = Ok =>
                   /\ Len(r.events) = Len(elements)
                   /\ \A i \in 1..Len(elements) :
                          /\ r.events[i].topic = VESTING_CREATED
                          /\ r.events[i].data
                                 = <<Nonce + i - 1, elements[i].recipient,
                                     get_vesting_info(r.persistent, Nonce + i - 1)>>
    /\ \A caller \in Addr, id \in DOMAIN Schedules :
           LET r == claim(persistent, balance, now, caller, id)
           IN  r.err = Ok =>
                   PublishedOne(r, CLAIMED,
                       <<id, caller, Held(r.balance, caller) - Held(balance, caller)>>)
    /\ \A caller \in Addr, id \in DOMAIN Schedules :
           LET r == revoke_vesting(persistent, balance, now, caller, id)
           IN  r.err = Ok =>
                   PublishedOne(r, VESTING_REVOKED,
                       <<id, Schedules[id].recipient,
                         Reserved - get_tokens_reserved_for_vesting(r.persistent),
                         get_vesting_info(r.persistent, id)>>)
    /\ \A caller \in Addr, amount \in Amounts :
           LET r == withdraw_admin(persistent, balance, caller, amount)
           IN  r.err = Ok => PublishedOne(r, ADMIN_WITHDRAWN, <<caller, amount>>)

\* withdraw_other_token publishes one event with the caller and the amount
\* transferred.
C27_EventOfWithdrawOther ==
    \A caller \in Addr, other \in Tokens :
        LET r == withdraw_other_token(persistent, balance, caller, other)
        IN  r.err = Ok =>
                /\ Len(r.events) = 1
                /\ r.events[1].data = <<caller, TokenBalance(balance, other, Self)>>

\* C27: every successful state-changing operation publishes exactly one
\* event with the specified payload: set_admin (admin, enabled); each
\* created schedule (id, recipient, vesting); claim (id, caller, amount
\* transferred); revoke_vesting (id, recipient, forfeited, vesting);
\* withdraw_admin (caller, amount); withdraw_other_token (caller, amount
\* transferred).
C27_Events ==
    /\ C27_EventsOfTheManagedToken
    /\ C27_EventOfWithdrawOther

\* An admin withdraws another token that the contract holds, and a claim
\* publishes its event.
C27_Witness ==
    /\ TokenBalance(balance, OtherToken, Self) > 0
    /\ is_admin(persistent, "A")
    /\ withdraw_other_token(persistent, balance, "A", OtherToken).err = Ok
    /\ \E id \in DOMAIN Schedules :
           claim(persistent, balance, now, Schedules[id].recipient, id).err = Ok

\* C28: after a successful set_admin(caller, target, enable),
\* is_admin(target) = enable, get_admins_count() has changed by exactly +1
\* when enabling and -1 when disabling, and is_admin of every address other
\* than target is unchanged.
C28_SetAdminEffect ==
    \A caller \in Addr, admin \in Addr, is_enabled \in BOOLEAN :
        LET r == set_admin(persistent, balance, caller, admin, is_enabled)
        IN  r.err = Ok =>
            /\ is_admin(r.persistent, admin) = is_enabled
            /\ get_admins_count(r.persistent)
                   = get_admins_count(persistent) + (IF is_enabled THEN 1 ELSE -1)
            /\ \A other \in Addr \ {admin} :
                   is_admin(r.persistent, other) = is_admin(persistent, other)
            /\ r.balance = balance

\* With two admins, one can be disabled and a third enabled.
C28_Witness ==
    /\ get_admins_count(persistent) = 2
    /\ is_admin(persistent, "A")
    /\ is_admin(persistent, "B")
    /\ set_admin(persistent, balance, "A", "B", FALSE).err = Ok
    /\ set_admin(persistent, balance, "B", "C", TRUE).err = Ok

\* C29: init succeeds exactly once. In the state after construction
\* init(factory_caller, token_address) leaves factory_caller as the only
\* admin, count = 1 and get_token_address() = token_address; in every
\* other reachable state, with any arguments, it fails with "Already
\* initialized" and leaves the admin set, the count and the token address
\* unchanged.
C29_InitOnce ==
    \A factory_caller \in Addr, token_address \in Tokens :
        LET r == init(persistent, balance, factory_caller, token_address)
        IN  IF persistent = EmptyMap
            THEN /\ r.err = Ok
                 /\ \A address \in Addr :
                        is_admin(r.persistent, address) = (address = factory_caller)
                 /\ DOMAIN r.persistent[ADMINS] = {factory_caller}
                 /\ get_admins_count(r.persistent) = 1
                 /\ get_token_address(r.persistent) = token_address
                 /\ r.balance = balance
            ELSE /\ Has(persistent, ADMINS)
                 /\ Has(persistent, ADMIN_COUNT)
                 /\ Has(persistent, TOKEN_ADDRESS)
                 /\ r.err = "Already initialized"
                 /\ Unchanged(r)
                 /\ r.events = <<>>

\* init is called again after an admin was added and a schedule created.
C29_Witness ==
    /\ get_admins_count(persistent) = 2
    /\ Nonce = 1
    /\ \A factory_caller \in Addr, token_address \in Tokens :
           init(persistent, balance, factory_caller, token_address).err
               = "Already initialized"

\* C30: in every reachable state and for every schedule, 0 <= claimed_amount
\* <= calculate_vested_amount(v, time of the last successful claim) <=
\* calculate_vested_amount(v, end_timestamp), nothing being claimed before
\* the first claim; and calculate_vested_amount(v, now) >= claimed_amount, so
\* that claimable is never negative, also after a revoke.
C30_ClaimedBounded ==
    \A id \in DOMAIN Schedules :
        LET v == Schedules[id]
        IN  /\ 0 <= v.claimed_amount
            /\ IF claimed_at[id] = <<>> THEN v.claimed_amount = 0
               ELSE /\ claimed_at[id][1] <= now
                    /\ v.claimed_amount
                           <= calculate_vested_amount(v, claimed_at[id][1])
                    /\ calculate_vested_amount(v, claimed_at[id][1])
                           <= calculate_vested_amount(v, v.end_timestamp)
            /\ v.claimed_amount <= calculate_vested_amount(v, v.end_timestamp)
            /\ calculate_vested_amount(v, now) >= v.claimed_amount
            /\ \A caller \in Addr :
                   LET r == claim(persistent, balance, now, caller, id)
                   IN  r.err = Ok => r.ret > 0

\* A schedule claimed from, then revoked, at a later time.
C30_Witness ==
    \E id \in DOMAIN Schedules :
        /\ claimed_at[id] # <<>>
        /\ revoked_at[id] # <<>>
        /\ Schedules[id].claimed_amount > 0
        /\ claimed_at[id][1] < revoked_at[id][1]
        /\ revoked_at[id][1] < now
        /\ Schedules[id].claimed_amount
               < calculate_vested_amount(Schedules[id], now)

\* The schedules stored before the call are stored after it with the same
\* fields, but for the one field of the one schedule.
SchedulesKept(r, changed_id, field) ==
    \A id \in DOMAIN Schedules :
        /\ HasVesting(r.persistent, id)
        /\ LET v == Schedules[id]
               w == get_vesting_info(r.persistent, id)
           IN  IF id = changed_id
               THEN [w EXCEPT ![field] = v[field]] = v
               ELSE w = v

NoSchedule == MaxVestingId + 2

\* C31: a stored schedule is never destroyed and is mutated only in two
\* cells: claim(id) changes only claimed_amount of schedule id,
\* revoke_vesting(id) changes only deactivation_timestamp of schedule id;
\* no other field changes after creation, no operation on schedule id
\* changes a field of another schedule, and no other operation changes a
\* stored schedule at all.
C31_ScheduleFrame ==
    /\ \A caller \in Addr, id \in VestingIds :
           LET r == claim(persistent, balance, now, caller, id)
           IN  r.err = Ok => SchedulesKept(r, id, "claimed_amount")
    /\ \A caller \in Addr, id \in VestingIds :
           LET r == revoke_vesting(persistent, balance, now, caller, id)
           IN  r.err = Ok => SchedulesKept(r, id, "deactivation_timestamp")
    /\ \A caller \in Addr, a \in CreateInputs :
           LET r == CreateResult(caller, a)
           IN  r.err = Ok => SchedulesKept(r, NoSchedule, "claimed_amount")
    /\ \A caller \in Addr, params \in AllParams :
           LET r == create_vesting_batch(persistent, balance, caller, params)
           IN  r.err = Ok => SchedulesKept(r, NoSchedule, "claimed_amount")
    /\ \A caller \in Addr, input \in SetAdminInputs :
           LET r == set_admin(persistent, balance, caller, input[1], input[2])
           IN  r.err = Ok => SchedulesKept(r, NoSchedule, "claimed_amount")
    /\ \A caller \in Addr, amount \in Amounts :
           LET r == withdraw_admin(persistent, balance, caller, amount)
           IN  r.err = Ok => SchedulesKept(r, NoSchedule, "claimed_amount")
    /\ \A caller \in Addr, other \in Tokens :
           LET r == withdraw_other_token(persistent, balance, caller, other)
           IN  r.err = Ok => SchedulesKept(r, NoSchedule, "claimed_amount")

\* A schedule that was claimed from is revoked.
C31_Witness ==
    \E id \in DOMAIN Schedules :
        /\ Schedules[id].claimed_amount > 0
        /\ Schedules[id].deactivation_timestamp = 0
        /\ now > 0
        /\ revoke_vesting(persistent, balance, now, "A", id).err = Ok

\* The largest value of the amount type; U256 arithmetic panics beyond it.
AmountMax == 2^AmountBits - 1

\* C32: for every schedule accepted by create_vesting and every reference
\* time, calculate_vested_amount completes without overflowing the amount
\* type: the product of linear_vest_amount and the truncated elapsed time
\* stays in range.
C32_NoOverflow ==
    \A id \in DOMAIN Schedules, t \in RefTimes :
        LET v == Schedules[id]
            adjusted == AdjustedReferenceTimestamp(v, t)
        IN  (Total(v) <= AmountMax /\ adjusted > LinearStartTimestamp(v))
                => LinearProduct(v, adjusted) <= AmountMax

\* A stored schedule whose amounts and whose caller's funds fit the amount
\* type, with a linear part that vests over more than one second.
C32_Witness ==
    /\ ScheduleFunds <= AmountMax
    /\ \E id \in DOMAIN Schedules :
           LET v == Schedules[id]
           IN  /\ v.linear_vest_amount > 0
               /\ Total(v) <= AmountMax
               /\ v.end_timestamp - LinearStartTimestamp(v) > 1
               /\ now >= v.end_timestamp


(***************************************************************************)
(* Token Vesting Factory (contracts/token_vesting_factory/src/lib.rs).     *)
(*                                                                         *)
(* The factory keeps its owner, the Wasm hash of the manager and a salt in *)
(* its instance storage.  Every entry point maps the instance storage and  *)
(* the call's arguments to a result [err, instance, ret, events].          *)
(***************************************************************************)
OWNER == "OWNER"
WASM_HASH == "WASMHASH"
SALT == "SALT"
NEW_OWNER == "NEWOWNER"
NEW_WASM_HASH == "NEWHASH"
TOKEN_VESTING_MANAGER_CREATED == "CREATED"

Factory == "FACTORY"
\* The largest value of a byte of the salt.
ByteMax == 255
\* The Wasm hashes uploaded to the ledger, and the one the factory starts with.
WasmHashes == {"H1", "H2"}
InitialWasmHash == "H1"
\* Argument vectors for the init of the deployed manager: (factory_caller,
\* token_address), and one that init does not take.
InitArgs == {<<"A", ManagedToken>>, <<"A">>}

FactoryResult(err, i, ret) == [err |-> err, instance |-> i, ret |-> ret, events |-> <<>>]

\* [0; 32]
ZeroSalt == [i \in 1..SaltLen |-> 0]

\* The salt read as a big-endian unsigned integer.
RECURSIVE SaltValueUpTo(_, _)
SaltValueUpTo(salt, i) == IF i = 0 THEN 0 ELSE SaltValueUpTo(salt, i - 1) * (ByteMax + 1) + salt[i]

SaltValue(salt) == SaltValueUpTo(salt, Len(salt))

\* The increment that stops at the first byte it visits.
IncrementFromWithoutCarry(salt, i) == IF salt[i] # ByteMax THEN [salt EXCEPT ![i] = salt[i] + 1] ELSE [salt EXCEPT ![i] = 0]

\* for i in (0..32).rev(): the bytes from the last one down to the first.
RECURSIVE IncrementFrom(_, _)
IncrementFrom(salt, i) == IF i = 0 THEN salt ELSE IF salt[i] # ByteMax THEN [salt EXCEPT ![i] = salt[i] + 1] ELSE IncrementFrom([salt EXCEPT ![i] = 0], i - 1)

\* The address of a contract deployed by a deployer with a salt.
DeployedAddress(deployer, salt) == [deployer |-> deployer, salt |-> salt]

\* The init of a freshly deployed manager, invoked with a vector of arguments.
InvokeInit(init_args) == IF Len(init_args) = 2 THEN init(EmptyMap, balance, init_args[1], init_args[2]) ELSE Result(Trap, EmptyMap, balance, 0)

factory_init(i, owner, wasm_hash) ==
    IF Has(i, OWNER) THEN FactoryResult("Already initialized", i, 0)
    ELSE FactoryResult(Ok, Set(Set(Set(i, OWNER, owner), WASM_HASH, wasm_hash),
                               SALT, ZeroSalt), 0)

\* existing: the salts of the contracts this factory has deployed.
new_token_vesting_manager(i, existing, init_args) ==
    IF ~Has(i, WASM_HASH) \/ ~Has(i, SALT) THEN FactoryResult(Trap, i, 0)
    ELSE
      LET new_salt == IncrementFrom(i[SALT], SaltLen)
          stored == Set(i, SALT, new_salt)
          deployed_address == DeployedAddress(Factory, new_salt)
      IN IF new_salt \in existing THEN FactoryResult(Trap, stored, 0)
         ELSE IF InvokeInit(init_args).err # Ok
              THEN FactoryResult(InvokeInit(init_args).err, stored, 0)
         ELSE Published(FactoryResult(Ok, stored, <<deployed_address, InvokeInit(init_args).ret>>),
                        Event(TOKEN_VESTING_MANAGER_CREATED, deployed_address))

\* An access control that lets every caller pass.
AnyCaller(i, caller) == TRUE

IsOwner(i, caller) == caller = i[OWNER]

update_owner(i, caller, new_owner) ==
    IF ~Has(i, OWNER) THEN FactoryResult(Trap, i, 0)
    ELSE IF ~IsOwner(i, caller) THEN FactoryResult("Not the owner", i, 0)
    ELSE IF new_owner = i[OWNER] THEN FactoryResult("New owner wrongly set", i, 0)
    ELSE Published(FactoryResult(Ok, Set(i, OWNER, new_owner), 0),
                   Event(NEW_OWNER, new_owner))

update_vesting_manager_wasm_hash(i, caller, new_wasm_hash) ==
    IF ~Has(i, OWNER) THEN FactoryResult(Trap, i, 0)
    ELSE IF ~IsOwner(i, caller) THEN FactoryResult("Not the owner", i, 0)
    ELSE IF ~Has(i, WASM_HASH) THEN FactoryResult(Trap, i, 0)
    ELSE IF new_wasm_hash = i[WASM_HASH]
         THEN FactoryResult("New Wasm hash wrongly set", i, 0)
    ELSE Published(FactoryResult(Ok, Set(i, WASM_HASH, new_wasm_hash), 0),
                   Event(NEW_WASM_HASH, new_wasm_hash))

get_owner(i) == IF Has(i, OWNER) THEN FactoryResult(Ok, i, i[OWNER]) ELSE FactoryResult(Trap, i, 0)

get_vesting_manager_wasm_hash(i) == IF Has(i, WASM_HASH) THEN FactoryResult(Ok, i, i[WASM_HASH]) ELSE FactoryResult(Trap, i, 0)

(***************************************************************************)
(* The factory's state machine.                                            *)
(***************************************************************************)
FactoryCommit(r) ==
    /\ r.err = Ok
    /\ instance' = r.instance
    /\ events' = IF logged THEN r.events ELSE <<>>
    /\ UNCHANGED <<persistent, balance, now, forfeited, revoked_at, claimed_at,
                   logged>>

CallFactoryInit ==
    \E owner \in InitCallers :
        /\ FactoryCommit(factory_init(instance, owner, InitialWasmHash))
        /\ UNCHANGED deployed

CallNewTokenVestingManager ==
    /\ Len(deployed) < MaxDeployments
    /\ \E init_args \in InitArgs :
        LET r == new_token_vesting_manager(instance, Range(deployed), init_args)
        IN /\ FactoryCommit(r)
           /\ deployed' = Append(deployed, r.ret[1].salt)

CallUpdateOwner ==
    \E caller \in Addr, new_owner \in Addr :
        /\ FactoryCommit(update_owner(instance, caller, new_owner))
        /\ UNCHANGED deployed

CallUpdateVestingManagerWasmHash ==
    \E caller \in Addr, new_wasm_hash \in WasmHashes :
        /\ FactoryCommit(update_vesting_manager_wasm_hash(instance, caller, new_wasm_hash))
        /\ UNCHANGED deployed

FactoryNext ==
    \/ CallFactoryInit
    \/ CallNewTokenVestingManager
    \/ CallUpdateOwner
    \/ CallUpdateVestingManagerWasmHash

FactorySpec == Init /\ [][FactoryNext]_vars

\* C33: every successful new_token_vesting_manager stores the salt it read
\* plus one, the salt read as a big-endian integer with carry, and deploys
\* at the address of the stored value; the i-th deployment of a factory
\* uses the salt i, so that the first uses 1 and no two use the same one.
C33_SaltIncrements ==
    /\ \A k \in DOMAIN deployed : SaltValue(deployed[k]) = k
    /\ Has(instance, SALT) => SaltValue(instance[SALT]) = Len(deployed)
    /\ \A init_args \in InitArgs :
        LET r == new_token_vesting_manager(instance, Range(deployed), init_args)
        IN r.err = Ok =>
            /\ SaltValue(r.instance[SALT]) = SaltValue(instance[SALT]) + 1
            /\ r.ret[1] = DeployedAddress(Factory, r.instance[SALT])
            /\ r.instance[SALT] \notin Range(deployed)

\* A deployment whose increment carried out of the last byte.
C33_Witness ==
    /\ Len(deployed) > ByteMax
    /\ deployed[Len(deployed)][SaltLen] = 0
    /\ deployed[Len(deployed)][SaltLen - 1] = 1

\* C34: update_owner and update_vesting_manager_wasm_hash return only for
\* the current owner and a value other than the stored one; after
\* update_owner returns, get_owner returns the new owner and the updates of
\* the previous owner fail; an init of an initialised factory fails and
\* leaves owner, hash and salt as they were.
C34_OwnerOnly ==
    /\ \A caller \in Addr, new_owner \in Addr :
        LET r == update_owner(instance, caller, new_owner)
        IN r.err = Ok =>
            /\ Has(instance, OWNER) /\ caller = instance[OWNER]
            /\ new_owner # instance[OWNER]
            /\ get_owner(r.instance) = FactoryResult(Ok, r.instance, new_owner)
            /\ \A x \in Addr : update_owner(r.instance, caller, x).err # Ok
            /\ \A h \in WasmHashes :
                update_vesting_manager_wasm_hash(r.instance, caller, h).err # Ok
            /\ r.instance = Set(instance, OWNER, new_owner)
    /\ \A caller \in Addr, new_hash \in WasmHashes :
        LET r == update_vesting_manager_wasm_hash(instance, caller, new_hash)
        IN r.err = Ok =>
            /\ Has(instance, OWNER) /\ caller = instance[OWNER]
            /\ new_hash # instance[WASM_HASH]
            /\ r.instance = Set(instance, WASM_HASH, new_hash)
    /\ Has(instance, OWNER) =>
        \A owner \in Addr, wasm_hash \in WasmHashes :
            LET r == factory_init(instance, owner, wasm_hash)
            IN r.err # Ok /\ r.instance = instance

\* The owner and the hash were both updated, and managers were deployed.
C34_Witness ==
    /\ Has(instance, OWNER)
    /\ instance[OWNER] \notin InitCallers
    /\ instance[WASM_HASH] # InitialWasmHash
    /\ deployed # <<>>

\* The claim of a schedule's recipient at the current ledger time.
ClaimByRecipient(id) == claim(persistent, balance, now, Schedules[id].recipient, id)

\* The schedule is over and its timelock has passed, and part of it is unclaimed.
DueInFull(id) ==
    /\ Schedules[id].claimed_amount < Total(Schedules[id])
    /\ now >= Schedules[id].end_timestamp
    /\ now >= Schedules[id].timelock

PaidInFull(id) ==
    /\ ClaimByRecipient(id).err = Ok
    /\ get_vesting_info(ClaimByRecipient(id).persistent, id).claimed_amount = Total(Schedules[id])

\* C35: the recipient of a schedule that no revoke has deactivated, and that
\* is not fully claimed, can claim at any time from the later of
\* end_timestamp and timelock on; the claim returns and leaves
\* claimed_amount at the schedule's total.
C35_PayableInFull ==
    \A id \in DOMAIN Schedules :
        (Schedules[id].deactivation_timestamp = 0 /\ DueInFull(id)) => PaidInFull(id)

\* The same of the schedules that no revoke_vesting call returned for.
C35_NeverRevokedPayableInFull ==
    \A id \in DOMAIN Schedules :
        (revoked_at[id] = <<>> /\ DueInFull(id)) => PaidInFull(id)

\* A schedule that is due in full, after earlier claims and withdrawals.
C35_Witness ==
    \E id \in DOMAIN Schedules :
        /\ revoked_at[id] = <<>>
        /\ DueInFull(id)
        /\ Schedules[id].claimed_amount > 0

\* What a claim at the current ledger time takes from reserved.
ClaimDecrement(id) == Claimable(calculate_vested_amount(Schedules[id], now), Schedules[id].claimed_amount)

\* What a revoke at the current ledger time takes from reserved.
RevokeDecrement(id) == AmountRemaining(calculate_vested_amount(Schedules[id], Schedules[id].end_timestamp), calculate_vested_amount(Deactivated(Schedules[id], now), now))

\* What the claims of a schedule transferred and its revokes released.
PaidAndReleased(id) == Schedules[id].claimed_amount + forfeited[id]

\* The claims of every schedule transferred its claimed_amount to the
\* recipient, and together with the amounts its revokes released from
\* reserved that is at most the schedule's total.
C36_PaidAndReleasedWithinTotal ==
    /\ \A id \in DOMAIN Schedules : PaidAndReleased(id) <= Total(Schedules[id])
    /\ \A a \in Addr \ InitCallers :
        Held(balance, a) = SumOver({id \in DOMAIN Schedules : Schedules[id].recipient = a},
                                   [id \in DOMAIN Schedules |-> Schedules[id].claimed_amount])

DirectDeposit ==
    \E from \in Funded, amount \in 1..MaxDeposit :
        /\ TokenCanMove(balance, ManagedToken, from, amount)
        /\ balance' = TokenMove(balance, ManagedToken, from, Self, amount)
        /\ UNCHANGED <<persistent, now, forfeited, revoked_at, claimed_at, events,
                       logged, instance, deployed>>

DepositNext ==
    \/ Next
    \/ DirectDeposit

DepositSpec == Init /\ [][DepositNext]_vars

\* C37: after every successful operation and after every direct deposit of
\* the managed token, the contract holds at least reserved of it, so that
\* amount_to_withdraw_by_admin does not underflow and is not negative.
C37_BalanceCoversReserved ==
    /\ Held(balance, Self) >= Reserved
    /\ Has(persistent, TOKEN_ADDRESS) =>
        /\ AmountToWithdrawDefined(persistent, balance)
        /\ amount_to_withdraw_by_admin(persistent, balance) >= 0
        /\ amount_to_withdraw_by_admin(persistent, balance) = Held(balance, Self) - Reserved

\* Deposited and forfeited tokens lie next to the reserved ones after a
\* withdrawal by the admin.
C37_Witness ==
    /\ Has(persistent, TOKEN_ADDRESS)
    /\ Reserved > 0
    /\ \E id \in DOMAIN Schedules : forfeited[id] > 0 /\ Schedules[id].claimed_amount > 0
    /\ Held(balance, "A") + Held(balance, "B") + Held(balance, "C") + Held(balance, Self) = 2 * InitialFunds
    /\ Held(balance, Self) > Reserved + SumOver(DOMAIN Schedules, forfeited)

(***************************************************************************)
(* The admin set of the manager under every set_admin call: every caller,  *)
(* every target and both flags, with a withdrawal that only admins make.   *)
(***************************************************************************)
CallSetAdminOfAny ==
    \E caller \in Addr, admin \in Addr, is_enabled \in BOOLEAN :
        /\ Commit(set_admin(persistent, balance, caller, admin, is_enabled))
        /\ UNCHANGED <<now, forfeited, revoked_at, claimed_at>>

AdminNext ==
    \/ CallInit
    \/ CallSetAdminOfAny
    \/ CallWithdrawOtherToken
    \/ AdvanceLedger

AdminSpec == Init /\ [][AdminNext]_vars

\* The addresses for which is_admin returns true.
EnabledAdmins == {a \in Addr : is_admin(persistent, a)}

\* C38: after init, get_admins_count is the number of addresses for which
\* is_admin returns true.
C38_CountIsEnabledAdmins ==
    Has(persistent, ADMINS) => get_admins_count(persistent) = Cardinality(EnabledAdmins)

\* The count never exceeds the number of enabled admins.
C38_CountAtMostEnabledAdmins ==
    Has(persistent, ADMINS) => get_admins_count(persistent) <= Cardinality(EnabledAdmins)

\* An admin was added and one was disabled.
C38_Witness ==
    /\ Has(persistent, ADMINS)
    /\ Cardinality(EnabledAdmins) = 2
    /\ \E a \in Addr : MapHas(persistent[ADMINS], a) /\ ~is_admin(persistent, a)

\* C39: after init some address is an enabled admin, whatever set_admin
\* calls were made, admins disabling themselves or each other included.
C39_SomeEnabledAdmin ==
    Has(persistent, ADMINS) => EnabledAdmins # {}

\* The initial admin was disabled by the admin it had added.
C39_Witness ==
    /\ Has(persistent, ADMINS)
    /\ \E a \in InitCallers, other \in Addr \ InitCallers :
        /\ MapHas(persistent[ADMINS], a) /\ ~is_admin(persistent, a)
        /\ EnabledAdmins = {other}
        /\ set_admin(persistent, balance, other, other, FALSE).err
               = "There must always be at least 1 admin"

\* The smaller of two times.
Earlier(a, b) == IF a <= b THEN a ELSE b

\* t': the reference time capped at the deactivation time, when there is
\* one, and then at the end.
CappedTime(v, t) == Earlier(IF v.deactivation_timestamp # 0 THEN Earlier(t, v.deactivation_timestamp) ELSE t, v.end_timestamp)

\* s: the cliff release time, or the start when there is no cliff.
LinearOrigin(v) == IF v.cliff_release_timestamp # 0 THEN v.cliff_release_timestamp ELSE v.start_timestamp

\* The linear part of the closed form.
LinearPart(v, t) ==
    IF CappedTime(v, t) > LinearOrigin(v)
    THEN (v.linear_vest_amount
            * (((CappedTime(v, t) - LinearOrigin(v)) \div v.release_interval_secs)
                   * v.release_interval_secs))
         \div (v.end_timestamp - LinearOrigin(v))
    ELSE 0

\* The closed form of the vested amount.
VestedClosedForm(v, t) ==
    (IF CappedTime(v, t) >= v.cliff_release_timestamp THEN v.cliff_amount ELSE 0)
    + (IF t >= v.start_timestamp THEN v.initial_unlock ELSE 0)
    + LinearPart(v, t)

\* C40: for every schedule and every reference time t, the value of
\* calculate_vested_amount(v, t) is the closed form: the cliff amount from
\* the cliff release on and the truncated linear part, both at t capped at
\* the deactivation and the end, and the initial unlock when t itself is at
\* or after the start; the linear part changes only at a multiple of
\* release_interval_secs after s.
C40_ClosedForm ==
    \A id \in DOMAIN Schedules, t \in RefTimes :
        LET v == Schedules[id]
        IN  /\ calculate_vested_amount(v, t) = VestedClosedForm(v, t)
            /\ LinearPart(v, t + 1) # LinearPart(v, t) =>
                   (CappedTime(v, t + 1) - LinearOrigin(v)) % v.release_interval_secs = 0

\* A revoked schedule with a cliff, an initial unlock and a linear part
\* released every other second, past its linear origin and before the first
\* release.
C40_Witness ==
    \E id \in DOMAIN Schedules :
        LET v == Schedules[id]
        IN  /\ v.deactivation_timestamp # 0
            /\ v.cliff_release_timestamp # 0
            /\ v.initial_unlock > 0
            /\ v.linear_vest_amount > 0
            /\ v.release_interval_secs > 1
            /\ CappedTime(v, now) > LinearOrigin(v)
            /\ LinearPart(v, now) = 0
====
